---- MODULE Spec2Model ----
(***************************************************************************)
(* A model of the screen recorder's main-process code:                     *)
(*   - the 'save-file' handler (temp write, verify, copy or probe +        *)
(*     transcode, cleanup in finally), src/unnamed/part_000 lines 86-220;  *)
(*   - the 'start-recording' / 'stop-recording' handlers and the recorder  *)
(*     process they drive, src/src/App.tsx lines 584-790.                  *)
(* Handlers are async functions on one event loop: a handler runs without  *)
(* interruption from one await to the next, so each action below is the    *)
(* code between two await points (or between an event and the next await). *)
(***************************************************************************)
EXTENDS Integers, Sequences, FiniteSets, TLC

\* ---------------------------------------------------------------- bounds
\* Date.now() takes the values 0..MaxClock.
MaxClock == 1
\* At most MaxProcs recorder processes are spawned in a run.
MaxProcs == 2
\* At most MaxSent IPC messages are followed through the preload bridge.
MaxSent == 3

\* ------------------------------------------------------- save-file: data
\* The save-file invocations that may be in flight (ipcMain.handle runs one
\* instance of the async handler per request).
SaveCalls == {1, 2}

\* The destination the save dialog returned, and the temp files
\* `temp-${Date.now()}.webm` of app.getPath('temp').
DestPaths == {<<"dest", 1>>}
Paths == DestPaths \cup {<<"temp", t>> : t \in 0..MaxClock}
\* `let tempPath = null`
NoPath == <<"none", 0>>

\* What a path holds. kind: "webm" the recorder's bytes, "h264" the
\* transcoder's finished output made from `bytes`, "partial" an output the
\* transcoder left unfinished.
Absent == [exists |-> FALSE, kind |-> "none", bytes |-> <<>>]
Raw(b) == [exists |-> TRUE, kind |-> "webm", bytes |-> b]
Transcoded(f) == [exists |-> TRUE, kind |-> "h264", bytes |-> f.bytes]
Partial == [exists |-> TRUE, kind |-> "partial", bytes |-> <<>>]

\* The `buffer` argument: absent (undefined/null) or an ArrayBuffer.
NoBuffer == [present |-> FALSE, bytes |-> <<>>]
Buf(b) == [present |-> TRUE, bytes |-> b]

\* The handler's return values.
Ok == [success |-> TRUE, error |-> "none"]
Fail(e) == [success |-> FALSE, error |-> e]
NoResult == [success |-> FALSE, error |-> "pending"]

\* JavaScript values of the request's options: a number, NaN, or undefined.
Num(n) == <<"number", n>>
NaN == <<"NaN", 0>>
Undefined == <<"undefined", 0>>
\* A JavaScript string, held as its characters.
Str(chars) == <<"string", chars>>

\* The `resolution` argument: undefined or a string.
ResolutionStrings ==
  {Undefined} \cup {Str(chars) : chars \in
  { <<>>,
    <<"1", "9", "2", "0", "x", "1", "0", "8", "0">>,
    <<"1", "9", "2", "0", "x", "1", "0", "8", "1">>,
    <<"1", "2", "8", "0", "x", "7", "2", "0">>,
    <<"6", "4", "0", "x", "1">>,
    <<"1", "9", "2", "0">>,
    <<"1", "x", "2", "x", "3">>,
    <<"x">>,
    <<"1", "9", "2", "0", "x", "a", "u", "t", "o">>,
    <<"0", "x", "0">>,
    <<"-", "8", "x", "-", "5">> }}

\* What ffprobe hands to the callback of getVideoInfo: an error, metadata
\* without a video stream, metadata that makes the parsing throw, or a
\* video stream with its width and height (0: the field is missing).
Probe(kind, w, h) == [kind |-> kind, width |-> w, height |-> h]

NoArgs == [filePath |-> NoPath, buffer |-> NoBuffer, format |-> "webm",
           resolution |-> Undefined, bitrate |-> Undefined,
           preserveAspectRatio |-> FALSE]
\* No transcoder command configured yet.
NoCommand == [input |-> NoPath, videoBitrate |-> NaN, videoFilters |-> <<>>,
              output |-> NoPath]

VARIABLES
  now,        \* Date.now()
  fs,         \* the file system: Paths -> file
  spc,        \* per save-file call: where the handler is suspended
  sargs,      \* per call: { filePath, buffer, format, resolution, bitrate,
              \*             preserveAspectRatio }
  tempPath,   \* per call: the local `tempPath`
  primary,    \* per call: the value of the return statement that ran in try/catch
  returned,   \* per call: the value the handler's promise resolved with
  probeRuns,  \* per call: ffprobe invocations
  ffmpegRuns, \* per call: command.run() invocations
  inputInfo,  \* per call: what getVideoInfo resolved with
  command,    \* per call: the transcoder command that was configured
  outcome,    \* per call: how each awaited step ended (history)
  fs0         \* per call: the file system when the call was made (history)

saveVars == <<fs, spc, sargs, tempPath, primary, returned, probeRuns,
              ffmpegRuns, inputInfo, command, outcome, fs0>>

\* ------------------------------------------------------- recorder: data
\* The start-recording and stop-recording invocations that may be in
\* flight.
StartCalls == {1, 2}
StopCalls == {1}

\* The child processes spawn() returns, in spawn order; `ffmpegProcess`
\* is null or one of them.
Procs == 1..MaxProcs
NoProc == 0

\* `recording-${timestamp}` under the recordings directory; "" at load.
RecPaths == {<<"rec", t>> : t \in 0..MaxClock}
EmptyPath == <<"", 0>>

\* randomBytes(32): a key that differs from the one held so far;
\* `encryptionKey` is null at load.
NoKey == "null"
GenerateEncryptionKey(held) == IF held = "k1" THEN "k2" ELSE "k1"

\* The payload of a recording-stopped event.
NoEvent == [path |-> EmptyPath, success |-> FALSE]

\* The handlers' return values.
Started == [success |-> TRUE, message |-> "Recording started"]
AlreadyRecording == [success |-> FALSE, message |-> "Already recording"]
StartFailed == [success |-> FALSE, message |-> "Failed to start recording"]
NotRecording == [success |-> FALSE, message |-> "Not recording",
                 path |-> EmptyPath]
Stopped(msg, path) == [success |-> TRUE, message |-> msg, path |-> path]
StopFailed == [success |-> FALSE, message |-> "Failed to stop recording",
               path |-> EmptyPath]
NoStartResult == [success |-> FALSE, message |-> "pending"]
NoStopResult == [success |-> FALSE, message |-> "pending",
                 path |-> EmptyPath]

VARIABLES
  isRecording,    \* `let isRecording`
  ffmpegProcess,  \* `let ffmpegProcess`: NoProc or a process
  recordingPath,  \* `let recordingPath`
  encryptionKey,  \* `let encryptionKey`
  proc,           \* per process: "unborn", "running", "terminating"
                  \* (running, SIGTERM sent), "closed", or "failed"
                  \* (spawn() returned it but it could not be launched)
  procPath,       \* per process: the recording path in its arguments
  meta,           \* per recording path: whether its -metadata.json exists
  evCount,        \* how many recording-stopped events were sent
  lastEvent,      \* the latest recording-stopped event sent to the window
  rpc,            \* per start-recording call: where it is suspended
  rret,           \* per start-recording call: its return value
  rmeta,          \* per start-recording call: the metadata path being written
  stpc,           \* per stop-recording call: where it is suspended
  stret,          \* per stop-recording call: its return value
  stproc,         \* per stop-recording call: the process whose close it awaits
  stmeta          \* per stop-recording call: its local `metadataPath`

recVars == <<isRecording, ffmpegProcess, recordingPath, encryptionKey, proc,
             procPath, meta, evCount, lastEvent, rpc, rret, rmeta, stpc,
             stret, stproc, stmeta>>
\* ------------------------------------------------ renderer: App component
\* `selectedSource` before a source is picked.
NoSource == "null"

\* A Resolution object; one of DEFAULT_RESOLUTIONS and a display's native
\* resolution as GET_SCREEN_RESOLUTIONS reports it.
Res(w, h, native) == [width |-> w, height |-> h, isNative |-> native]
DEFAULT_RESOLUTIONS ==
  <<Res(3840, 2160, FALSE), Res(2560, 1440, FALSE), Res(1920, 1080, FALSE),
    Res(1280, 720, FALSE), Res(854, 480, FALSE)>>

\* What screen.getAllDisplays() may return: up to two displays, each with
\* the width and height of its bounds.
DisplayLists ==
  LET shapes == {[width |-> 2560, height |-> 1600],
                 [width |-> 1920, height |-> 1080],
                 [width |-> 1707, height |-> 1067],
                 [width |-> 1280, height |-> 720]}
  IN  {<<>>} \cup {<<d>> : d \in shapes}
             \cup {<<d, e>> : d \in shapes, e \in shapes}

\* setupStream invocations; each creates at most one MediaRecorder.
Recorders == {1, 2}
NoRecorder == 0
\* Runs of recorder.onstop.
Handlers == {1, 2}
\* Data events a recorder delivers with size > 0, and the sizes of e.data.
ChunksPerRecorder == {1, 2}
ChunkSizes == {0, 1}
\* Values of recordingTime.
Times == 0..1

\* What a render's setupStream closes over.
Settings(fmt, res, rate, keep) ==
  [format |-> fmt, resolution |-> res, bitrate |-> rate,
   preserveAspectRatio |-> keep]
NoSettings == Settings("mp4", DEFAULT_RESOLUTIONS[3], 5000000, TRUE)

\* `${selectedResolution.width}x${selectedResolution.height}`
ResolutionString(res) == <<res.width, "x", res.height>>

\* The argument of invoke('save-file', ...).
NoRequest == [filePath |-> NoPath, buffer |-> <<>>, format |-> "none",
              resolution |-> <<>>, bitrate |-> 0,
              preserveAspectRatio |-> FALSE]

\* Values of saveStatus.
StatusNone == <<"">>
StatusNoData == <<"Error: No recording data collected">>
StatusProcessing == <<"Processing recording...">>
StatusEmpty == <<"Error: Recording is empty">>
StatusSaving(fmt) == <<"Saving and converting to", fmt>>
StatusSaved(p) == <<"Recording saved successfully to:", p>>
StatusSaveError(e) == <<"Error saving recording:", e>>
StatusCancelled == <<"Save cancelled">>
StatusThrown == <<"Error saving recording">>
StatusSetupError == <<"Error setting up stream">>

\* The history of an onstop run that has not begun.
NoHist == [mark |-> 0, selected |-> NoSettings]

VARIABLES
  sourcesLoaded,       \* getSources has resolved: the picker has options
  enumPending,         \* getResolutions has not settled yet
  resolutions,         \* useState `resolutions`
  displays,            \* screen.getAllDisplays() of the main process
  listed,              \* what the GET_SCREEN_RESOLUTIONS handler returned
  selectedSource,      \* useState `selectedSource`
  selectedFormat,      \* useState `selectedFormat`
  selectedResolution,  \* useState `selectedResolution`
  selectedBitrate,     \* useState `selectedBitrate` (its value)
  preserveAspectRatio, \* useState `preserveAspectRatio`
  uiIsRecording,       \* useState `isRecording` of the App component
  mediaRecorder,       \* useState `mediaRecorder`: NoRecorder or a recorder
  recordedChunks,      \* useState `recordedChunks`
  recordingTime,       \* useState `recordingTime`
  saveStatus,          \* useState `saveStatus`
  timerInterval,       \* timerInterval.current is non-null
  liveTimers,          \* how many setInterval timers are running
  rec,                 \* per setupStream call: "unused", "pending"
                       \* (awaiting getUserMedia), "failed", or the state of
                       \* its MediaRecorder: "inactive", "recording"
  closure,             \* per setupStream call: the state it closed over
  chunks,              \* per setupStream call: `const chunks`
  hpc,                 \* per onstop run: "idle" (not begun), "queued" (its
                       \* stop event waits in the task queue), "dialog",
                       \* "save", "done"
  hrec,                \* per onstop run: the recorder that fired it
  hbuf,                \* per onstop run: the chunks its blob was made of
  hreq,                \* per onstop run: the save-file request it sent
  lastAct,             \* the latest control the user clicked
  mark,                \* per recorder: Len(chunks) at its last start()
  hist                 \* per onstop run: mark and the UI's settings when
                       \* its recorder stopped recording

uiVars == <<sourcesLoaded, enumPending, resolutions, displays, listed,
            selectedSource, selectedFormat, selectedResolution,
            selectedBitrate, preserveAspectRatio, timerInterval, liveTimers,
            hpc, hrec, hbuf, hreq, hist, uiIsRecording, mediaRecorder,
            recordedChunks, recordingTime, saveStatus, rec, closure, chunks,
            lastAct, mark>>

\* ------------------------------------------------- preload: the bridge
\* const validChannels = ['show-save-dialog', 'save-file']
validChannels == {"show-save-dialog", "save-file"}

VARIABLES
  ipcSent,      \* the messages ipcRenderer.invoke sent to the main process
                \* for electron.ipcRenderer.invoke, oldest first
  bridgeReply   \* the latest call of electron.ipcRenderer.invoke: its
                \* channel, and whether it was forwarded or rejected

bridgeVars == <<ipcSent, bridgeReply>>

vars == <<now, saveVars, recVars, uiVars, bridgeVars>>

NoOutcome == [write |-> "none", stat |-> "none", copy |-> "none",
              probe |-> "none", ffmpeg |-> "none", unlink |-> "none"]

\* ------------------------------------------------ save-file: pure pieces
\* `!buffer || buffer.byteLength === 0`
EmptyBufferMissingOnly(buffer) == ~buffer.present
EmptyBuffer(buffer) == ~buffer.present \/ Len(buffer.bytes) = 0

\* `format === 'webm'`
IsNativeFormatMp4(format) == format = "mp4"
IsNativeFormat(format) == format = "webm"

\* fs.writeFile(tempPath, Buffer.from(buffer)) that succeeded
WriteFile(f, p, buffer) == [f EXCEPT ![p] = Raw(buffer.bytes)]

\* fs.copyFile(src, dst) that succeeded
CopyFileSwapped(f, src, dst) == [f EXCEPT ![src] = f[dst]]
CopyFile(f, src, dst) == [f EXCEPT ![dst] = f[src]]

\* getVideoInfo: whether the promise rejects for a probe outcome. Every
\* branch of the ffprobe callback calls resolve.
GetVideoInfoRejectsOnErr(probeOutcome) == probeOutcome = "err"
GetVideoInfoRejects(probeOutcome) == FALSE

\* getVideoInfo: what the promise resolves with. An error, a missing
\* video stream and a throw while parsing all resolve with the fallback;
\* a video stream resolves with `videoStream.width || 1920` and
\* `videoStream.height || 1080`.
GetVideoInfoNoFallback(probe) ==
  [width |-> probe.width, height |-> probe.height]

GetVideoInfo(probe) ==
  IF probe.kind = "ok"
  THEN [width |-> IF probe.width # 0 THEN probe.width ELSE 1920,
        height |-> IF probe.height # 0 THEN probe.height ELSE 1080]
  ELSE [width |-> 1920, height |-> 1080]

\* The decimal digits, in order.
Digits == <<"0", "1", "2", "3", "4", "5", "6", "7", "8", "9">>

\* str.split(sep) for a one-character separator: the pieces between the
\* separators, in order; a string without separator is one piece.
RECURSIVE Split(_, _)
Split(chars, sep) ==
  IF \A i \in 1..Len(chars) : chars[i] # sep THEN <<chars>>
  ELSE LET k == CHOOSE i \in 1..Len(chars) :
                  chars[i] = sep /\ \A j \in 1..(i - 1) : chars[j] # sep
       IN  <<SubSeq(chars, 1, k - 1)>>
             \o Split(SubSeq(chars, k + 1, Len(chars)), sep)

\* parseInt(chars, 10): leading blanks are skipped, a sign is taken, then
\* the longest run of digits is read; without a digit the result is NaN.
ParseInt(chars) ==
  LET blanks == Cardinality({i \in 1..Len(chars) :
                               \A j \in 1..i : chars[j] = " "})
      t == SubSeq(chars, blanks + 1, Len(chars))
      signed == Len(t) > 0 /\ t[1] \in {"-", "+"}
      body == IF signed THEN Tail(t) ELSE t
      IsDigit(ch) == \E d \in 1..10 : Digits[d] = ch
      n == Cardinality({i \in 1..Len(body) :
                          \A j \in 1..i : IsDigit(body[j])})
      DigitVal(ch) == (CHOOSE d \in 1..10 : Digits[d] = ch) - 1
      RECURSIVE Value(_)
      Value(k) == IF k = 0 THEN 0
                  ELSE 10 * Value(k - 1) + DigitVal(body[k])
  IN  IF n = 0 THEN NaN
      ELSE IF signed /\ t[1] = "-" THEN Num(0 - Value(n)) ELSE Num(Value(n))

\* `${v}` for a number: its decimal digits, with a sign when negative;
\* NaN gives 'NaN'.
NumberToString(v) ==
  LET RECURSIVE Dec(_)
      Dec(k) == IF k < 10 THEN <<Digits[k + 1]>>
                ELSE Dec(k \div 10) \o <<Digits[(k % 10) + 1]>>
  IN  IF v[1] # "number" THEN <<"N", "a", "N">>
      ELSE IF v[2] < 0 THEN <<"-">> \o Dec(0 - v[2]) ELSE Dec(v[2])

\* `height % 2 === 0 ? height : height - 1`
EvenHeightUp(height) == IF height % 2 = 0 THEN height ELSE height + 1
EvenHeight(height) == IF height % 2 = 0 THEN height ELSE height - 1

\* Lines 118-129: width and height are 1920 and 1080 unless `resolution`
\* is a non-empty string with exactly two 'x'-separated parts; then they
\* are the parsed parts, the height made even (NaN stays NaN).
ParseResolution(resolution) ==
  LET dims == Split(resolution[2], "x")
  IN  IF resolution[1] = "string" /\ resolution[2] # <<>> /\ Len(dims) = 2
      THEN [width |-> ParseInt(dims[1]),
            height |-> LET h == ParseInt(dims[2])
                       IN  IF h[1] = "number" THEN Num(EvenHeight(h[2]))
                           ELSE NaN]
      ELSE [width |-> Num(1920), height |-> Num(1080)]

\* `bitrate ? Math.floor(bitrate / 1000) : 5000`
VideoBitrateInBits(bitrate) ==
  IF bitrate[1] = "number" /\ bitrate[2] # 0 THEN bitrate ELSE Num(5000)

VideoBitrate(bitrate) ==
  IF bitrate[1] = "number" /\ bitrate[2] # 0
  THEN Num(bitrate[2] \div 1000) ELSE Num(5000)

\* Lines 143-155: the scaling filter, a template string of the target
\* width and height.
ScaleFilterPadded(width, height, preserve) ==
  <<"scale=">> \o NumberToString(width) \o <<":">> \o NumberToString(height)
    \o <<":force_original_aspect_ratio=decrease,pad=">>
    \o NumberToString(width) \o <<":">> \o NumberToString(height)
    \o <<":(ow-iw)/2:(oh-ih)/2">>

ScaleFilter(width, height, preserve) ==
  IF preserve
  THEN <<"scale=">> \o NumberToString(width) \o <<":">> \o NumberToString(height)
         \o <<":force_original_aspect_ratio=decrease,pad=">>
         \o NumberToString(width) \o <<":">> \o NumberToString(height)
         \o <<":(ow-iw)/2:(oh-ih)/2">>
  ELSE <<"scale=">> \o NumberToString(width) \o <<":">> \o NumberToString(height)

\* The terminal events of the transcoder: 'end', or 'error' with the
\* error whose message is one of these.
FfmpegErrors == {"ffmpeg exited with code 1", "spawn ENOENT"}

\* The promise around command.run(): 'end' resolves, 'error' rejects
\* with the error.
FfmpegRejectsNever(event) == FALSE
FfmpegRejects(event) == event \in FfmpegErrors

\* catch: `return { success: false, error: error.message }`
CatchResult(message) == Fail(message)

\* finally: `if (tempPath)` decides whether fs.unlink(tempPath) is called.
NeedsCleanupOnSuccess(tp, res) == tp # NoPath /\ res.success
NeedsCleanup(tp, res) == tp # NoPath

\* finally: the inner catch only logs, so the handler's value is the one
\* the try/catch returned.
CleanupResultMasks(res, unlinkOutcome) ==
  IF unlinkOutcome \in {"enoent", "error"} THEN Fail("UnlinkError") ELSE res
CleanupResult(res, unlinkOutcome) == res

\* ---------------------------------------------------------------- Init
Init ==
  /\ now = 0
  /\ fs = [p \in Paths |-> Absent]
  /\ spc = [c \in SaveCalls |-> "idle"]
  /\ sargs = [c \in SaveCalls |-> NoArgs]
  /\ tempPath = [c \in SaveCalls |-> NoPath]
  /\ primary = [c \in SaveCalls |-> NoResult]
  /\ returned = [c \in SaveCalls |-> NoResult]
  /\ probeRuns = [c \in SaveCalls |-> 0]
  /\ ffmpegRuns = [c \in SaveCalls |-> 0]
  /\ inputInfo = [c \in SaveCalls |-> [width |-> 0, height |-> 0]]
  /\ command = [c \in SaveCalls |-> NoCommand]
  /\ outcome = [c \in SaveCalls |-> NoOutcome]
  /\ fs0 = [c \in SaveCalls |-> [p \in Paths |-> Absent]]
  /\ isRecording = FALSE
  /\ ffmpegProcess = NoProc
  /\ recordingPath = EmptyPath
  /\ encryptionKey = NoKey
  /\ proc = [p \in Procs |-> "unborn"]
  /\ procPath = [p \in Procs |-> EmptyPath]
  /\ meta = [r \in RecPaths |-> FALSE]
  /\ evCount = 0
  /\ lastEvent = NoEvent
  /\ rpc = [h \in StartCalls |-> "idle"]
  /\ rret = [h \in StartCalls |-> NoStartResult]
  /\ rmeta = [h \in StartCalls |-> EmptyPath]
  /\ stpc = [h \in StopCalls |-> "idle"]
  /\ stret = [h \in StopCalls |-> NoStopResult]
  /\ stproc = [h \in StopCalls |-> NoProc]
  /\ stmeta = [h \in StopCalls |-> EmptyPath]
  /\ sourcesLoaded = FALSE
  /\ enumPending = TRUE
  /\ displays = <<[width |-> 2560, height |-> 1600]>>
  /\ listed = <<>>
  /\ resolutions = DEFAULT_RESOLUTIONS
  /\ selectedSource = NoSource
  /\ selectedFormat = "mp4"
  /\ selectedResolution = DEFAULT_RESOLUTIONS[3]
  /\ selectedBitrate = 5000000
  /\ preserveAspectRatio = TRUE
  /\ uiIsRecording = FALSE
  /\ mediaRecorder = NoRecorder
  /\ recordedChunks = <<>>
  /\ recordingTime = 0
  /\ saveStatus = StatusNone
  /\ timerInterval = FALSE
  /\ liveTimers = 0
  /\ rec = [r \in Recorders |-> "unused"]
  /\ closure = [r \in Recorders |-> NoSettings]
  /\ chunks = [r \in Recorders |-> <<>>]
  /\ hpc = [h \in Handlers |-> "idle"]
  /\ hrec = [h \in Handlers |-> NoRecorder]
  /\ hbuf = [h \in Handlers |-> <<>>]
  /\ hreq = [h \in Handlers |-> NoRequest]
  /\ lastAct = "none"
  /\ mark = [r \in Recorders |-> 0]
  /\ hist = [h \in Handlers |-> NoHist]
  /\ ipcSent = <<>>
  /\ bridgeReply = [channel |-> "", settled |-> "none", error |-> <<>>]

\* The clock advances.
Tick ==
  /\ now < MaxClock
  /\ now' = now + 1
  /\ UNCHANGED <<saveVars, recVars, uiVars, bridgeVars>>

\* ------------------------------------------------- save-file: the steps
\* The return statement of try or catch has run with value res; finally
\* runs next: it awaits fs.unlink(tempPath) if there is a temp path, and
\* otherwise the handler returns at once.
Settle(c, res, tp) ==
  /\ primary' = [primary EXCEPT ![c] = res]
  /\ IF NeedsCleanup(tp, res)
       THEN /\ spc' = [spc EXCEPT ![c] = "unlink"]
            /\ returned' = [returned EXCEPT ![c] = NoResult]
       ELSE /\ spc' = [spc EXCEPT ![c] = "ret"]
            /\ returned' = [returned EXCEPT ![c] = CleanupResult(res, "none")]

\* The handler is invoked: lines 86-100, up to `await fs.writeFile(...)`.
SaveFile(c, filePath, buffer, format, resolution, bitrate, preserve) ==
  /\ spc[c] = "idle"
  /\ sargs' = [sargs EXCEPT ![c] =
                 [filePath |-> filePath, buffer |-> buffer, format |-> format,
                  resolution |-> resolution, bitrate |-> bitrate,
                  preserveAspectRatio |-> preserve]]
  /\ fs0' = [fs0 EXCEPT ![c] = fs]
  /\ probeRuns' = [probeRuns EXCEPT ![c] = 0]
  /\ ffmpegRuns' = [ffmpegRuns EXCEPT ![c] = 0]
  /\ outcome' = [outcome EXCEPT ![c] = NoOutcome]
  /\ IF EmptyBuffer(buffer)
       THEN /\ tempPath' = [tempPath EXCEPT ![c] = NoPath]
            /\ Settle(c, Fail("No recording data received"), NoPath)
       ELSE /\ tempPath' = [tempPath EXCEPT ![c] = <<"temp", now>>]
            /\ primary' = [primary EXCEPT ![c] = NoResult]
            /\ returned' = [returned EXCEPT ![c] = NoResult]
            /\ spc' = [spc EXCEPT ![c] = "write"]
  /\ UNCHANGED <<now, fs, inputInfo, command>>
  /\ UNCHANGED <<recVars, uiVars, bridgeVars>>

\* fs.writeFile settles: lines 100-103, up to `await fs.stat(tempPath)`.
\* A failed write leaves no file or a truncated one.
WriteDone(c) ==
  /\ spc[c] = "write"
  /\ \/ /\ fs' = WriteFile(fs, tempPath[c], sargs[c].buffer)
        /\ outcome' = [outcome EXCEPT ![c].write = "ok"]
        /\ spc' = [spc EXCEPT ![c] = "stat"]
        /\ UNCHANGED <<primary, returned>>
     \/ /\ \/ fs' = fs
           \/ fs' = [fs EXCEPT ![tempPath[c]] = Raw(<<>>)]
        /\ outcome' = [outcome EXCEPT ![c].write = "error"]
        /\ Settle(c, CatchResult("WriteError"), tempPath[c])
  /\ UNCHANGED <<now, sargs, tempPath, probeRuns, ffmpegRuns, inputInfo,
                 command, fs0>>
  /\ UNCHANGED <<recVars, uiVars, bridgeVars>>

\* fs.stat settles: lines 103-135, up to `await fs.copyFile(...)` on the
\* fast path or `await getVideoInfo(tempPath)` on the transcode path.
StatDone(c) ==
  /\ spc[c] = "stat"
  /\ \/ /\ fs[tempPath[c]].exists
        /\ outcome' = [outcome EXCEPT ![c].stat = "ok"]
        /\ IF Len(fs[tempPath[c]].bytes) = 0
             THEN /\ Settle(c, Fail("Recording file is empty"), tempPath[c])
                  /\ UNCHANGED probeRuns
             ELSE /\ UNCHANGED <<primary, returned>>
                  /\ IF IsNativeFormat(sargs[c].format)
                       THEN /\ spc' = [spc EXCEPT ![c] = "copy"]
                            /\ UNCHANGED probeRuns
                       ELSE /\ spc' = [spc EXCEPT ![c] = "probe"]
                            /\ probeRuns' = [probeRuns EXCEPT ![c] = @ + 1]
     \/ /\ outcome' = [outcome EXCEPT ![c].stat = "error"]
        /\ Settle(c, CatchResult("StatError"), tempPath[c])
        /\ UNCHANGED probeRuns
  /\ UNCHANGED <<now, fs, sargs, tempPath, ffmpegRuns, inputInfo, command,
                 fs0>>
  /\ UNCHANGED <<recVars, uiVars, bridgeVars>>

\* fs.copyFile settles: lines 113-116. A failed copy leaves the
\* destination as it was or removed.
CopyDone(c) ==
  /\ spc[c] = "copy"
  /\ \/ /\ fs[tempPath[c]].exists
        /\ fs' = CopyFile(fs, tempPath[c], sargs[c].filePath)
        /\ outcome' = [outcome EXCEPT ![c].copy = "ok"]
        /\ Settle(c, Ok, tempPath[c])
     \/ /\ \/ fs' = fs
           \/ fs' = [fs EXCEPT ![sargs[c].filePath] = Absent]
        /\ outcome' = [outcome EXCEPT ![c].copy = "error"]
        /\ Settle(c, CatchResult("CopyError"), tempPath[c])
  /\ UNCHANGED <<now, sargs, tempPath, probeRuns, ffmpegRuns, inputInfo,
                 command, fs0>>
  /\ UNCHANGED <<recVars, uiVars, bridgeVars>>

\* The same step with command.run() not awaited.
ProbeDoneDetached(c, probe) ==
  /\ spc[c] = "probe"
  /\ outcome' = [outcome EXCEPT ![c].probe = probe.kind]
  /\ IF GetVideoInfoRejects(probe.kind)
       THEN /\ Settle(c, CatchResult("ProbeError"), tempPath[c])
            /\ UNCHANGED <<ffmpegRuns, inputInfo, command>>
       ELSE /\ Settle(c, Ok, tempPath[c])
            /\ ffmpegRuns' = [ffmpegRuns EXCEPT ![c] = @ + 1]
            /\ inputInfo' = [inputInfo EXCEPT ![c] = GetVideoInfo(probe)]
            /\ LET target == ParseResolution(sargs[c].resolution)
               IN  command' = [command EXCEPT ![c] =
                     [input |-> tempPath[c],
                      videoBitrate |-> VideoBitrate(sargs[c].bitrate),
                      videoFilters |->
                        ScaleFilter(target.width, target.height,
                                    sargs[c].preserveAspectRatio),
                      output |-> sargs[c].filePath]]
  /\ UNCHANGED <<now, fs, sargs, tempPath, probeRuns, fs0>>
  /\ UNCHANGED <<recVars, uiVars, bridgeVars>>

\* The ffprobe callback runs with `probe`: lines 135-202 and 223-272, up
\* to the await of the promise around command.run(). The command is
\* configured from the target size and bitrate computed at lines 118-132.
ProbeDone(c, probe) ==
  /\ spc[c] = "probe"
  /\ outcome' = [outcome EXCEPT ![c].probe = probe.kind]
  /\ IF GetVideoInfoRejects(probe.kind)
       THEN /\ Settle(c, CatchResult("ProbeError"), tempPath[c])
            /\ UNCHANGED <<ffmpegRuns, inputInfo, command>>
       ELSE /\ spc' = [spc EXCEPT ![c] = "ffmpeg"]
            /\ ffmpegRuns' = [ffmpegRuns EXCEPT ![c] = @ + 1]
            /\ inputInfo' = [inputInfo EXCEPT ![c] = GetVideoInfo(probe)]
            /\ LET target == ParseResolution(sargs[c].resolution)
               IN  command' = [command EXCEPT ![c] =
                     [input |-> tempPath[c],
                      videoBitrate |-> VideoBitrate(sargs[c].bitrate),
                      videoFilters |->
                        ScaleFilter(target.width, target.height,
                                    sargs[c].preserveAspectRatio),
                      output |-> sargs[c].filePath]]
            /\ UNCHANGED <<primary, returned>>
  /\ UNCHANGED <<now, fs, sargs, tempPath, probeRuns, fs0>>
  /\ UNCHANGED <<recVars, uiVars, bridgeVars>>

\* The transcoder emits its terminal event: lines 189-208. It writes
\* straight to filePath: 'end' leaves the finished output there, 'error'
\* leaves the destination as it was or with an unfinished output.
FfmpegDone(c) ==
  /\ spc[c] = "ffmpeg"
  /\ \E ev \in {"end"} \cup FfmpegErrors :
       /\ outcome' = [outcome EXCEPT ![c].ffmpeg = ev]
       /\ IF ev = "end"
            THEN /\ fs[tempPath[c]].exists
                 /\ fs' = [fs EXCEPT ![sargs[c].filePath] =
                                        Transcoded(fs[tempPath[c]])]
            ELSE \/ fs' = fs
                 \/ fs' = [fs EXCEPT ![sargs[c].filePath] = Partial]
       /\ IF FfmpegRejects(ev)
            THEN Settle(c, CatchResult(ev), tempPath[c])
            ELSE Settle(c, Ok, tempPath[c])
  /\ UNCHANGED <<now, sargs, tempPath, probeRuns, ffmpegRuns, inputInfo,
                 command, fs0>>
  /\ UNCHANGED <<recVars, uiVars, bridgeVars>>

\* fs.unlink settles: lines 211-219; then the handler returns.
UnlinkDone(c) ==
  /\ spc[c] = "unlink"
  /\ \E uo \in {"ok", "enoent", "error"} :
       /\ uo = "enoent" <=> ~fs[tempPath[c]].exists
       /\ fs' = IF uo = "ok" THEN [fs EXCEPT ![tempPath[c]] = Absent] ELSE fs
       /\ outcome' = [outcome EXCEPT ![c].unlink = uo]
       /\ returned' = [returned EXCEPT ![c] = CleanupResult(primary[c], uo)]
  /\ spc' = [spc EXCEPT ![c] = "ret"]
  /\ UNCHANGED <<now, sargs, tempPath, primary, probeRuns, ffmpegRuns,
                 inputInfo, command, fs0>>
  /\ UNCHANGED <<recVars, uiVars, bridgeVars>>

\* The caller has received the result; the call's locals are gone.
SaveAck(c) ==
  /\ spc[c] = "ret"
  /\ spc' = [spc EXCEPT ![c] = "idle"]
  /\ sargs' = [sargs EXCEPT ![c] = NoArgs]
  /\ tempPath' = [tempPath EXCEPT ![c] = NoPath]
  /\ primary' = [primary EXCEPT ![c] = NoResult]
  /\ returned' = [returned EXCEPT ![c] = NoResult]
  /\ probeRuns' = [probeRuns EXCEPT ![c] = 0]
  /\ ffmpegRuns' = [ffmpegRuns EXCEPT ![c] = 0]
  /\ inputInfo' = [inputInfo EXCEPT ![c] = [width |-> 0, height |-> 0]]
  /\ command' = [command EXCEPT ![c] = NoCommand]
  /\ outcome' = [outcome EXCEPT ![c] = NoOutcome]
  /\ fs0' = [fs0 EXCEPT ![c] = [p \in Paths |-> Absent]]
  /\ UNCHANGED <<now, fs>>
  /\ UNCHANGED <<recVars, uiVars, bridgeVars>>

\* Callers serialize saves (spec 4.3, 4.4): a save-file request is made
\* only when no other is in flight.
NoSaveInFlight == \A c \in SaveCalls : spc[c] = "idle"

SaveRequest ==
  \E c \in SaveCalls, filePath \in DestPaths,
     buffer \in {NoBuffer, Buf(<<>>), Buf(<<1>>), Buf(<<2, 1>>)},
     format \in {"webm", "mp4", "mkv"} :
       NoSaveInFlight
       /\ SaveFile(c, filePath, buffer, format, Undefined, Undefined, FALSE)

SaveNext ==
  \/ Tick
  \/ SaveRequest
  \/ \E c \in SaveCalls : WriteDone(c)
  \/ \E c \in SaveCalls : StatDone(c)
  \/ \E c \in SaveCalls : CopyDone(c)
  \/ \E c \in SaveCalls, kind \in {"err", "novideo", "badmeta", "ok"} :
       ProbeDone(c, Probe(kind, 1920, 1080))
  \/ \E c \in SaveCalls : FfmpegDone(c)
  \/ \E c \in SaveCalls : UnlinkDone(c)
  \/ \E c \in SaveCalls : SaveAck(c)

SaveSpec == Init /\ [][SaveNext]_vars

\* ------------------------------------------------- save-file: the claims
\* A call is returned when its promise has resolved.
SaveReturned(c) == spc[c] = "ret"
\* A call's temp artifact is on disk.
TempExists(c) == tempPath[c] # NoPath /\ fs[tempPath[c]].exists
\* The call got past the temp write and its verification (lines 100-109).
TempVerified(c) ==
  /\ outcome[c].stat = "ok"
  /\ primary[c] # Fail("Recording file is empty")

\* C1 as stated: after any save-file call has returned, the temp artifact
\* the call created no longer exists on disk.
C1_TempGoneAfterReturn ==
  \A c \in SaveCalls : SaveReturned(c) => ~TempExists(c)

\* C1 amended: a returned call that made a temp path has called fs.unlink
\* on it, and the temp artifact no longer exists unless that unlink failed
\* (which is only logged).
C1_TempGoneUnlessUnlinkFailed ==
  \A c \in SaveCalls :
    SaveReturned(c) /\ tempPath[c] # NoPath =>
      /\ outcome[c].unlink # "none"
      /\ outcome[c].unlink # "error" => ~TempExists(c)

\* C1 witness: a call whose transcoder failed has returned with its temp
\* artifact deleted.
C1_Witness ==
  \E c \in SaveCalls :
    /\ SaveReturned(c)
    /\ outcome[c].ffmpeg \in FfmpegErrors
    /\ outcome[c].unlink = "ok"
    /\ ~TempExists(c)

\* C2: a call with an empty or missing buffer returns at once with
\* {success:false, error}, with no temp path, no change to any file, and
\* neither the probe nor the transcoder started.
C2_EmptyBufferNoEffect ==
  \A c \in SaveCalls :
    /\ spc[c] # "idle"
    /\ ~sargs[c].buffer.present \/ Len(sargs[c].buffer.bytes) = 0
    => /\ SaveReturned(c)
       /\ returned[c] = Fail("No recording data received")
       /\ tempPath[c] = NoPath
       /\ fs = fs0[c]
       /\ probeRuns[c] = 0 /\ ffmpegRuns[c] = 0
       /\ outcome[c] = NoOutcome

\* C2 witness: a call with a present but zero-length buffer and a format
\* that would need the transcoder has returned.
C2_Witness ==
  \E c \in SaveCalls :
    /\ SaveReturned(c)
    /\ sargs[c].buffer = Buf(<<>>)
    /\ sargs[c].format = "mp4"

\* C3: a returned call with format 'webm' that reports success has left at
\* filePath a file holding exactly the bytes of the input buffer.
C3_WebmCopyIsIdentity ==
  \A c \in SaveCalls :
    SaveReturned(c) /\ sargs[c].format = "webm" /\ returned[c].success =>
      /\ fs[sargs[c].filePath].exists
      /\ fs[sargs[c].filePath].kind = "webm"
      /\ fs[sargs[c].filePath].bytes = sargs[c].buffer.bytes
      /\ Len(sargs[c].buffer.bytes) > 0

\* C3 witness: a successful webm save has replaced a destination that held
\* something else.
C3_Witness ==
  \E c \in SaveCalls :
    /\ SaveReturned(c) /\ sargs[c].format = "webm" /\ returned[c].success
    /\ fs0[c][sargs[c].filePath].exists
    /\ fs0[c][sargs[c].filePath] # fs[sargs[c].filePath]

\* C4: a call with format 'webm' never starts the probe or the transcoder;
\* once the temp artifact is verified it copies it, and it reports success
\* exactly when the copy completed.
C4_FastPathNoTranscoder ==
  \A c \in SaveCalls :
    spc[c] # "idle" /\ sargs[c].format = "webm" =>
      /\ probeRuns[c] = 0 /\ ffmpegRuns[c] = 0
      /\ outcome[c].probe = "none" /\ outcome[c].ffmpeg = "none"
      /\ spc[c] \notin {"probe", "ffmpeg"}
      /\ SaveReturned(c) /\ TempVerified(c) =>
           /\ outcome[c].copy # "none"
           /\ returned[c].success <=> outcome[c].copy = "ok"

\* C4 witness: a webm call has copied and returned success.
C4_Witness ==
  \E c \in SaveCalls :
    /\ SaveReturned(c) /\ sargs[c].format = "webm"
    /\ outcome[c].copy = "ok" /\ returned[c] = Ok

\* C5: the transcoder is started at most once per call and only for a
\* format other than 'webm'; a returned call on the transcode path (format
\* not 'webm', temp artifact verified) started it exactly once, reports
\* success if it ended normally and reports failure with the transcoder's
\* error message if it errored.
C5_TranscodeOnceAndReported ==
  \A c \in SaveCalls :
    /\ ffmpegRuns[c] <= 1
    /\ ffmpegRuns[c] = 1 => sargs[c].format # "webm"
    /\ SaveReturned(c) /\ sargs[c].format # "webm" /\ TempVerified(c) =>
         /\ ffmpegRuns[c] = 1
         /\ outcome[c].ffmpeg \in {"end"} \cup FfmpegErrors
         /\ outcome[c].ffmpeg = "end" => returned[c] = Ok
         /\ outcome[c].ffmpeg \in FfmpegErrors =>
              returned[c] = Fail(outcome[c].ffmpeg)

\* C5 witness: a call whose probe errored has run the transcoder, which
\* exited non-zero, and has returned that error.
C5_Witness ==
  \E c \in SaveCalls :
    /\ SaveReturned(c) /\ sargs[c].format = "mkv"
    /\ outcome[c].probe = "err"
    /\ ffmpegRuns[c] = 1
    /\ returned[c] = Fail("ffmpeg exited with code 1")

\* C6 as stated: when the transcoder failed, no partial output file is at
\* filePath after the call has returned.
C6_NoPartialOutputAfterFailure ==
  \A c \in SaveCalls :
    SaveReturned(c) /\ outcome[c].ffmpeg \in FfmpegErrors =>
      fs[sargs[c].filePath].kind # "partial"

\* Which awaited steps of a call failed.
StepFailed(c) ==
  \/ outcome[c].write = "error"
  \/ outcome[c].stat = "error"
  \/ outcome[c].copy = "error"
  \/ outcome[c].ffmpeg \in FfmpegErrors
ProbeFailed(c) == outcome[c].probe \in {"err", "novideo", "badmeta"}

\* C7 as stated: a returned call has a Result; a failure of any step, the
\* probe included, yields {success:false}; success only after the copy or
\* the transcode completed.
C7_AnyStepFailureFails ==
  \A c \in SaveCalls :
    SaveReturned(c) =>
      /\ returned[c] # NoResult
      /\ StepFailed(c) \/ ProbeFailed(c) => ~returned[c].success
      /\ returned[c].success =>
           outcome[c].copy = "ok" \/ outcome[c].ffmpeg = "end"

\* C7 amended: a returned call has a Result; a failure of the temp write,
\* the stat, the copy or the transcode yields {success:false, error}; a
\* probe failure alone does not fail the call; success is returned only
\* when the copy or the transcode completed without error.
C7_ResultAlwaysReturned ==
  \A c \in SaveCalls :
    /\ spc[c] \in {"idle", "write", "stat", "copy", "probe", "ffmpeg",
                   "unlink", "ret"}
    /\ SaveReturned(c) =>
         /\ returned[c] # NoResult
         /\ StepFailed(c) =>
              ~returned[c].success /\ returned[c].error # "none"
         /\ returned[c].success =>
              outcome[c].copy = "ok" \/ outcome[c].ffmpeg = "end"
         /\ ~returned[c].success => returned[c].error # "none"

\* C7 witness: a call whose copy failed has returned {success:false} with
\* the copy's error.
C7_Witness ==
  \E c \in SaveCalls :
    /\ SaveReturned(c)
    /\ outcome[c].copy = "error"
    /\ returned[c] = Fail("CopyError")

\* C8: the value a call returns is the one its try/catch determined,
\* whatever fs.unlink did in finally.
C8_CleanupKeepsResult ==
  \A c \in SaveCalls : SaveReturned(c) => returned[c] = primary[c]

\* C8 witness: fs.unlink failed and the call has still returned success.
C8_Witness ==
  \E c \in SaveCalls :
    /\ SaveReturned(c)
    /\ outcome[c].unlink = "error"
    /\ primary[c] = Ok /\ returned[c] = Ok

\* --------------------------------------------------- recorder: the steps
\* `if (isRecording) return { success: false, message: "Already recording" }`
StartRejectedNever(flag) == FALSE
StartRejected(flag) == flag


\* The process spawn() creates next.
NextProc == CHOOSE p \in Procs :
              proc[p] = "unborn" /\ \A q \in Procs : q < p => proc[q] # "unborn"

\* The exit codes a recorder process closes with.
ExitCodes == {0, 1}

\* Lines 665-684, up to `await writeFile(...)` of the metadata:
\* recordingPath and the key are assigned, the metadata write is started.
PrepareRecording(h) ==
  /\ recordingPath' = <<"rec", now>>
  /\ encryptionKey' = GenerateEncryptionKey(encryptionKey)
  /\ rmeta' = [rmeta EXCEPT ![h] = <<"rec", now>>]
  /\ rpc' = [rpc EXCEPT ![h] = "meta"]

\* start-recording is invoked: lines 660-664. When the recordings
\* directory exists ensureDirectories does no I/O and the handler goes on
\* to line 684 before any other handler runs; when it is missing the
\* handler waits for mkdir.
StartRecording(h) ==
  /\ rpc[h] = "idle"
  /\ IF StartRejected(isRecording)
       THEN /\ rpc' = [rpc EXCEPT ![h] = "ret"]
            /\ rret' = [rret EXCEPT ![h] = AlreadyRecording]
            /\ UNCHANGED <<recordingPath, encryptionKey, rmeta>>
       ELSE /\ rret' = [rret EXCEPT ![h] = NoStartResult]
            /\ \/ PrepareRecording(h)
               \/ /\ rpc' = [rpc EXCEPT ![h] = "dirs"]
                  /\ UNCHANGED <<recordingPath, encryptionKey, rmeta>>
  /\ UNCHANGED <<isRecording, ffmpegProcess, proc, procPath, meta, evCount,
                 lastEvent, stpc, stret, stproc, stmeta>>
  /\ UNCHANGED <<now, saveVars, uiVars, bridgeVars>>

\* mkdir settles: lines 596-599 and 664-684; a rejected mkdir goes to
\* catch.
StartDirsDone(h) ==
  /\ rpc[h] = "dirs"
  /\ \/ /\ PrepareRecording(h)
        /\ UNCHANGED rret
     \/ /\ rpc' = [rpc EXCEPT ![h] = "ret"]
        /\ rret' = [rret EXCEPT ![h] = StartFailed]
        /\ UNCHANGED <<recordingPath, encryptionKey, rmeta>>
  /\ UNCHANGED <<isRecording, ffmpegProcess, proc, procPath, meta, evCount,
                 lastEvent, stpc, stret, stproc, stmeta>>
  /\ UNCHANGED <<now, saveVars, uiVars, bridgeVars>>

\* The metadata writeFile settles: lines 684-737. spawn() throws, or
\* returns a child to which the 'close' listener is attached: a running
\* process, or one that could not be launched ("failed": the launch error
\* is reported by an 'error' event on a later tick, for which the handler
\* registers no listener, and no 'close' follows).
StartMetaDone(h) ==
  /\ rpc[h] = "meta"
  /\ rpc' = [rpc EXCEPT ![h] = "ret"]
  /\ \/ /\ meta' = [meta EXCEPT ![rmeta[h]] = TRUE]
        /\ \/ /\ \E p \in Procs : proc[p] = "unborn"
              /\ \E launched \in {"running", "failed"} :
                   proc' = [proc EXCEPT ![NextProc] = launched]
              /\ procPath' = [procPath EXCEPT ![NextProc] = recordingPath]
              /\ ffmpegProcess' = NextProc
              /\ isRecording' = TRUE
              /\ rret' = [rret EXCEPT ![h] = Started]
           \/ /\ rret' = [rret EXCEPT ![h] = StartFailed]
              /\ UNCHANGED <<proc, procPath, ffmpegProcess, isRecording>>
     \/ /\ rret' = [rret EXCEPT ![h] = StartFailed]
        /\ UNCHANGED <<meta, proc, procPath, ffmpegProcess, isRecording>>
  /\ UNCHANGED <<recordingPath, encryptionKey, evCount, lastEvent, rmeta,
                 stpc, stret, stproc, stmeta>>
  /\ UNCHANGED <<now, saveVars, uiVars, bridgeVars>>

\* The caller has received start-recording's result.
StartAck(h) ==
  /\ rpc[h] = "ret"
  /\ rpc' = [rpc EXCEPT ![h] = "idle"]
  /\ rret' = [rret EXCEPT ![h] = NoStartResult]
  /\ rmeta' = [rmeta EXCEPT ![h] = EmptyPath]
  /\ UNCHANGED <<isRecording, ffmpegProcess, recordingPath, encryptionKey,
                 proc, procPath, meta, evCount, lastEvent, stpc, stret,
                 stproc, stmeta>>
  /\ UNCHANGED <<now, saveVars, uiVars, bridgeVars>>

\* A recorder process closes (on SIGTERM or by itself): the 'close'
\* listener of lines 724-730 runs (the window exists once handlers run),
\* then the listener of every stop-recording awaiting this process
\* (lines 751-755), whose handler goes on to line 768's readFile.
ProcClose(p, code) ==
  /\ proc[p] \in {"running", "terminating"}
  /\ proc' = [proc EXCEPT ![p] = "closed"]
  /\ isRecording' = FALSE
  /\ evCount' = evCount + 1
  /\ lastEvent' = [path |-> recordingPath, success |-> code = 0]
  /\ LET woken == {h \in StopCalls : stpc[h] = "wait" /\ stproc[h] = p} IN
       /\ stpc' = [h \in StopCalls |->
                     IF h \in woken
                       THEN IF encryptionKey # NoKey THEN "read" ELSE "ret"
                       ELSE stpc[h]]
       /\ stmeta' = [h \in StopCalls |->
                       IF h \in woken /\ encryptionKey # NoKey
                         THEN recordingPath ELSE stmeta[h]]
       /\ stret' = [h \in StopCalls |->
                      IF h \in woken /\ encryptionKey = NoKey
                        THEN Stopped("Recording stopped", recordingPath)
                        ELSE stret[h]]
  /\ UNCHANGED <<ffmpegProcess, recordingPath, encryptionKey, procPath, meta,
                 rpc, rret, rmeta, stproc>>
  /\ UNCHANGED <<now, saveVars, uiVars, bridgeVars>>

\* stop-recording is invoked: lines 741-755, up to the await of the
\* process's 'close'.
StopRecording(h) ==
  /\ stpc[h] = "idle"
  /\ IF ~isRecording \/ ffmpegProcess = NoProc
       THEN /\ stpc' = [stpc EXCEPT ![h] = "ret"]
            /\ stret' = [stret EXCEPT ![h] = NotRecording]
            /\ UNCHANGED <<proc, stproc>>
       ELSE /\ proc' = [proc EXCEPT ![ffmpegProcess] =
                           IF @ = "running" THEN "terminating" ELSE @]
            /\ stproc' = [stproc EXCEPT ![h] = ffmpegProcess]
            /\ stpc' = [stpc EXCEPT ![h] = "wait"]
            /\ stret' = [stret EXCEPT ![h] = NoStopResult]
  /\ UNCHANGED <<isRecording, ffmpegProcess, recordingPath, encryptionKey,
                 procPath, meta, evCount, lastEvent, rpc, rret, rmeta,
                 stmeta>>
  /\ UNCHANGED <<now, saveVars, uiVars, bridgeVars>>

\* readFile(metadataPath) settles: lines 768-771, up to
\* `await writeFile(metadataPath, ...)`.
StopReadDone(h) ==
  /\ stpc[h] = "read"
  /\ \/ /\ stmeta[h] \in RecPaths
        /\ meta[stmeta[h]]
        /\ stpc' = [stpc EXCEPT ![h] = "write"]
        /\ UNCHANGED stret
     \/ /\ stpc' = [stpc EXCEPT ![h] = "ret"]
        /\ stret' = [stret EXCEPT ![h] = StopFailed]
  /\ UNCHANGED <<isRecording, ffmpegProcess, recordingPath, encryptionKey,
                 proc, procPath, meta, evCount, lastEvent, rpc, rret, rmeta,
                 stproc, stmeta>>
  /\ UNCHANGED <<now, saveVars, uiVars, bridgeVars>>

\* writeFile(metadataPath) settles: lines 771-789.
StopWriteDone(h) ==
  /\ stpc[h] = "write"
  /\ stpc' = [stpc EXCEPT ![h] = "ret"]
  /\ \/ /\ meta' = [meta EXCEPT ![stmeta[h]] = TRUE]
        /\ stret' = [stret EXCEPT ![h] =
                       Stopped("Recording stopped and encrypted", recordingPath)]
     \/ /\ stret' = [stret EXCEPT ![h] = StopFailed]
        /\ UNCHANGED meta
  /\ UNCHANGED <<isRecording, ffmpegProcess, recordingPath, encryptionKey,
                 proc, procPath, evCount, lastEvent, rpc, rret, rmeta, stproc,
                 stmeta>>
  /\ UNCHANGED <<now, saveVars, uiVars, bridgeVars>>

\* The caller has received stop-recording's result.
StopAck(h) ==
  /\ stpc[h] = "ret"
  /\ stpc' = [stpc EXCEPT ![h] = "idle"]
  /\ stret' = [stret EXCEPT ![h] = NoStopResult]
  /\ stproc' = [stproc EXCEPT ![h] = NoProc]
  /\ stmeta' = [stmeta EXCEPT ![h] = EmptyPath]
  /\ UNCHANGED <<isRecording, ffmpegProcess, recordingPath, encryptionKey,
                 proc, procPath, meta, evCount, lastEvent, rpc, rret, rmeta>>
  /\ UNCHANGED <<now, saveVars, uiVars, bridgeVars>>

\* A start-recording request arrives; the run spawns at most MaxProcs
\* processes.
StartRequest ==
  /\ Cardinality({p \in Procs : proc[p] = "unborn"}) >
       Cardinality({h \in StartCalls : rpc[h] \in {"dirs", "meta"}})
  /\ \E h \in StartCalls : StartRecording(h)

RecNext ==
  \/ Tick
  \/ StartRequest
  \/ \E h \in StartCalls : StartDirsDone(h)
  \/ \E h \in StartCalls : StartMetaDone(h)
  \/ \E h \in StartCalls : StartAck(h)
  \/ \E h \in StopCalls : StopRecording(h)
  \/ \E h \in StopCalls : StopReadDone(h)
  \/ \E h \in StopCalls : StopWriteDone(h)
  \/ \E h \in StopCalls : StopAck(h)
  \/ \E p \in Procs, code \in ExitCodes : ProcClose(p, code)

RecSpec == Init /\ [][RecNext]_vars

\* --------------------------------------------------- recorder: the claims
\* The recorder processes that are running.
Running == {p \in Procs : proc[p] \in {"running", "terminating"}}

\* C9 as stated: at most one recorder process is running at any moment.
C9_AtMostOneRecorder == Cardinality(Running) <= 1

\* C10: a start-recording invoked while isRecording is true returns
\* {success:false, "Already recording"} at once and changes nothing of the
\* session: recordingPath, ffmpegProcess, the encryption key, the metadata
\* files and the processes stay as they are.
C10_StartWhileRecordingRejected ==
  [][\A h \in StartCalls :
       isRecording /\ rpc[h] = "idle" /\ rpc'[h] # "idle" =>
         /\ rpc'[h] = "ret"
         /\ rret'[h] = AlreadyRecording
         /\ UNCHANGED <<isRecording, recordingPath, ffmpegProcess,
                        encryptionKey, meta, proc, procPath, evCount,
                        lastEvent>>]_vars

\* C10 witness: a start-recording has been rejected while the process of
\* the current session is running.
C10_Witness ==
  \E h \in StartCalls :
    /\ rpc[h] = "ret" /\ rret[h] = AlreadyRecording
    /\ isRecording
    /\ ffmpegProcess \in Running

\* ------------------------------------------- renderer: the pure pieces
\* The state a render's closures see.
CurrentSettings ==
  Settings(selectedFormat, selectedResolution, selectedBitrate,
           preserveAspectRatio)

\* r.width === res.width && r.height === res.height
SameSize(a, b) == a.width = b.width /\ a.height = b.height

\* A filter that keeps every entry.
KeepAll(s, i) == SubSeq(s, i, Len(s))

\* .filter((res, index, self) => index === self.findIndex(same size)),
\* from index i on.
RECURSIVE Dedupe(_, _)
Dedupe(s, i) ==
  IF i > Len(s) THEN <<>>
  ELSE (IF \E j \in 1..(i - 1) : SameSize(s[j], s[i]) THEN <<>>
        ELSE <<s[i]>>) \o Dedupe(s, i + 1)

\* .sort((a, b) => b.height - a.height): stable, tallest first.
RECURSIVE SortByHeight(_)
SortByHeight(s) ==
  IF s = <<>> THEN <<>>
  ELSE LET t == SortByHeight(SubSeq(s, 1, Len(s) - 1))
           x == s[Len(s)]
           k == Cardinality({i \in 1..Len(t) : t[i].height >= x.height})
       IN  SubSeq(t, 1, k) \o <<x>> \o SubSeq(t, k + 1, Len(t))

\* gcd of calculateAspectRatio: Euclid's loop on the absolute values.
GcdOne(a, b) == 1
RECURSIVE Gcd(_, _)
Gcd(a, b) ==
  LET x == IF a < 0 THEN 0 - a ELSE a
      y == IF b < 0 THEN 0 - b ELSE b
  IN  IF x = 0 THEN y ELSE IF y = 0 THEN x ELSE Gcd(y, x % y)

\* calculateAspectRatio(width, height): `${ratioWidth}:${ratioHeight}` of
\* the sides divided by their gcd (Math.round leaves the whole quotients
\* as they are), '16:9' when the gcd is 0 or a side exceeds 100.
CalculateAspectRatio(width, height) ==
  LET divisor == Gcd(width, height)
      ratioWidth == width \div divisor
      ratioHeight == height \div divisor
  IN  IF divisor = 0 THEN <<"1", "6", ":", "9">>
      ELSE IF ratioWidth > 100 \/ ratioHeight > 100
             THEN <<"1", "6", ":", "9">>
             ELSE NumberToString(Num(ratioWidth)) \o <<":">>
                    \o NumberToString(Num(ratioHeight))

\* Lines 32-48: the label of the band `ratio = width / height` lies in,
\* else calculateAspectRatio. For height > 0, `ratio > 1.7` is
\* 10 * width > 17 * height, and so on.
AspectRatio(width, height) ==
  IF 10 * width > 17 * height /\ 10 * width < 18 * height
    THEN <<"1", "6", ":", "9">>
  ELSE IF 10 * width > 13 * height /\ 10 * width < 14 * height
    THEN <<"4", ":", "3">>
  ELSE IF 10 * width > 15 * height /\ 10 * width < 16 * height
    THEN <<"3", ":", "2">>
  ELSE IF 10 * width > 23 * height /\ 10 * width < 24 * height
    THEN <<"2", "1", ":", "9">>
  ELSE CalculateAspectRatio(width, height)

\* The GET_SCREEN_RESOLUTIONS handler's listing of the displays d: each
\* display's width, its height made even, and its aspect-ratio label.
GetScreenResolutions(d) ==
  [i \in 1..Len(d) |-> [width |-> d[i].width,
                        height |-> EvenHeight(d[i].height),
                        aspectRatio |-> AspectRatio(d[i].width,
                                                    d[i].height)]]

\* What invoke('GET_SCREEN_RESOLUTIONS') resolves with: the listing, or
\* the [] of the handler's catch.
NativeLists == {<<>>, GetScreenResolutions(displays)}

\* allResolutions of getScreenResolutions.
AllResolutions(nativeRes) ==
  SortByHeight(Dedupe(nativeRes \o DEFAULT_RESOLUTIONS, 1))

\* A data event's blob: the k-th blob recorder r delivered, of a size.
Chunk(r, k, size) == [recorder |-> r, seq |-> k, size |-> size]

\* ondataavailable: `if (e.data && e.data.size > 0)` keeps the blob.
KeepsChunkAlways(size) == TRUE
KeepsChunk(size) == size > 0

\* A chunk list after ondataavailable ran for a blob.
Push(list, blob) == IF KeepsChunk(blob.size) THEN Append(list, blob) ELSE list

\* blob.size of new Blob(chunks).
RECURSIVE BlobSize(_)
BlobSize(list) ==
  IF list = <<>> THEN 0 ELSE list[1].size + BlobSize(Tail(list))

\* selectedFormat.toUpperCase()
ToUpperCase(fmt) ==
  CASE fmt = "mp4" -> "MP4" [] fmt = "mkv" -> "MKV" [] fmt = "webm" -> "WEBM"

\* disabled={!selectedSource || isRecording} of the Start button.
StartDisabledNever(source, recording) == FALSE
StartDisabled(source, recording) == source = NoSource \/ recording
\* disabled={!isRecording} of the Stop button.
StopDisabledAlways(recording) == TRUE

StopDisabled(recording) == ~recording

\* `if (mediaRecorder)` of startRecording and stopRecording.
HasRecorder(recorder) == recorder # NoRecorder

\* MediaRecorder.start() throws unless the recorder is inactive.
StartThrows(r) == rec[r] # "inactive"

\* The request onstop sends: the values its setupStream closed over.
SaveArgs(path, buffer, s) ==
  [filePath |-> path, buffer |-> buffer, format |-> s.format,
   resolution |-> ResolutionString(s.resolution), bitrate |-> s.bitrate,
   preserveAspectRatio |-> s.preserveAspectRatio]

\* What the two invoke() calls of onstop can settle with.
DialogReplies ==
  {<<"resolved", p>> : p \in DestPaths \cup {EmptyPath}}
    \cup {<<"rejected", EmptyPath>>}
SaveReplies ==
  {<<"resolved", Ok>>, <<"resolved", Fail("ffmpeg exited with code 1")>>,
   <<"rejected", NoResult>>}

FreeRecorders == {r \in Recorders : rec[r] = "unused"}
FreeHandlers == {h \in Handlers : hpc[h] = "idle"}
\* The chunks delivered since the recorder's last start().
Delivered(list, from) == SubSeq(list, from + 1, Len(list))

\* A Start click would start a recording: the button is enabled
\* (disabled={!selectedSource || isRecording}), startRecording finds a
\* recorder and start(200) does not throw.
CanStartRecording ==
  /\ ~StartDisabled(selectedSource, uiIsRecording)
  /\ HasRecorder(mediaRecorder)
  /\ ~StartThrows(mediaRecorder)

\* ----------------------------------------------- renderer: the handlers
\* useEffect([selectedResolution, selectedSource]) after a render with the
\* source and the settings s, one of the two having changed:
\* setupStream(selectedSource) runs up to its await of getUserMedia.
RunEffect(source, s) ==
  IF source # NoSource /\ ~uiIsRecording
  THEN /\ FreeRecorders # {}
       /\ LET r == CHOOSE x \in FreeRecorders :
                     \A y \in FreeRecorders : x <= y
          IN  /\ rec' = [rec EXCEPT ![r] = "pending"]
              /\ closure' = [closure EXCEPT ![r] = s]
  ELSE UNCHANGED <<rec, closure>>

\* getSources resolves: the source picker gets its options.
SourcesLoaded ==
  /\ ~sourcesLoaded
  /\ sourcesLoaded' = TRUE
  /\ UNCHANGED <<now, saveVars, recVars, listed, bridgeVars>>
  /\ UNCHANGED <<enumPending, resolutions, displays, selectedSource,
                 selectedFormat, selectedResolution, selectedBitrate,
                 preserveAspectRatio, timerInterval, liveTimers, hpc, hrec,
                 hbuf, hreq, hist, uiIsRecording, mediaRecorder,
                 recordedChunks, recordingTime, saveStatus, rec, closure,
                 chunks, lastAct, mark>>

\* The set of displays changes before GET_SCREEN_RESOLUTIONS has read it.
DisplaysChanged(d) ==
  /\ enumPending
  /\ d # displays
  /\ displays' = d
  /\ UNCHANGED <<now, saveVars, recVars, listed, bridgeVars>>
  /\ UNCHANGED <<sourcesLoaded, enumPending, resolutions, selectedSource,
                 selectedFormat, selectedResolution, selectedBitrate,
                 preserveAspectRatio, timerInterval, liveTimers, hpc, hrec,
                 hbuf, hreq, hist, uiIsRecording, mediaRecorder,
                 recordedChunks, recordingTime, saveStatus, rec, closure,
                 chunks, lastAct, mark>>

\* getScreenResolutions continues after its await with the list the main
\* process returned: a non-empty list is marked native, merged into the
\* resolution list, and its first entry selected; with an empty list, or
\* in its catch, nothing changes.
ResolutionsLoaded(nativeResolutions) ==
  /\ enumPending
  /\ enumPending' = FALSE
  /\ listed' = nativeResolutions
  /\ LET nativeRes == [i \in 1..Len(nativeResolutions) |->
                         Res(nativeResolutions[i].width,
                             nativeResolutions[i].height, TRUE)]
     IN  IF Len(nativeRes) > 0
         THEN /\ resolutions' = AllResolutions(nativeRes)
              /\ selectedResolution' = nativeRes[1]
              /\ RunEffect(selectedSource,
                           [CurrentSettings EXCEPT
                              !.resolution = nativeRes[1]])
         ELSE UNCHANGED <<resolutions, selectedResolution, rec, closure>>
  /\ UNCHANGED <<now, saveVars, recVars, bridgeVars>>
  /\ UNCHANGED <<displays, sourcesLoaded, selectedSource, selectedFormat,
                 selectedBitrate, preserveAspectRatio, timerInterval,
                 liveTimers, hpc, hrec, hbuf, hreq, hist, uiIsRecording,
                 mediaRecorder, recordedChunks, recordingTime, saveStatus,
                 chunks, lastAct, mark>>

\* The source picker (disabled while isRecording) changes to a source.
handleSourceSelect(source) ==
  /\ sourcesLoaded /\ ~uiIsRecording
  /\ source # selectedSource
  /\ selectedSource' = source
  /\ RunEffect(source, CurrentSettings)
  /\ UNCHANGED <<now, saveVars, recVars, listed, bridgeVars>>
  /\ UNCHANGED <<sourcesLoaded, enumPending, resolutions, displays,
                 selectedFormat, selectedResolution, selectedBitrate,
                 preserveAspectRatio, timerInterval, liveTimers, hpc, hrec,
                 hbuf, hreq, hist, uiIsRecording, mediaRecorder,
                 recordedChunks, recordingTime, saveStatus, chunks, lastAct,
                 mark>>

\* The resolution picker (disabled while isRecording) changes to an
\* entry of the resolution list.
SelectResolution(i) ==
  /\ ~uiIsRecording
  /\ i \in 1..Len(resolutions)
  /\ ~SameSize(resolutions[i], selectedResolution)
  /\ selectedResolution' = resolutions[i]
  /\ RunEffect(selectedSource,
               [CurrentSettings EXCEPT !.resolution = resolutions[i]])
  /\ UNCHANGED <<now, saveVars, recVars, listed, bridgeVars>>
  /\ UNCHANGED <<sourcesLoaded, enumPending, resolutions, displays,
                 selectedSource, selectedFormat, selectedBitrate,
                 preserveAspectRatio, timerInterval, liveTimers, hpc, hrec,
                 hbuf, hreq, hist, uiIsRecording, mediaRecorder,
                 recordedChunks, recordingTime, saveStatus, chunks, lastAct,
                 mark>>

\* The bitrate picker (disabled while isRecording).
SelectBitrate(rate) ==
  /\ ~uiIsRecording
  /\ rate # selectedBitrate
  /\ selectedBitrate' = rate
  /\ UNCHANGED <<now, saveVars, recVars, listed, bridgeVars>>
  /\ UNCHANGED <<sourcesLoaded, enumPending, resolutions, displays,
                 selectedSource, selectedFormat, selectedResolution,
                 preserveAspectRatio, timerInterval, liveTimers, hpc, hrec,
                 hbuf, hreq, hist, uiIsRecording, mediaRecorder,
                 recordedChunks, recordingTime, saveStatus, rec, closure,
                 chunks, lastAct, mark>>

\* The format picker (disabled while isRecording).
SelectFormat(fmt) ==
  /\ ~uiIsRecording
  /\ fmt # selectedFormat
  /\ selectedFormat' = fmt
  /\ UNCHANGED <<now, saveVars, recVars, listed, bridgeVars>>
  /\ UNCHANGED <<sourcesLoaded, enumPending, resolutions, displays,
                 selectedSource, selectedResolution, selectedBitrate,
                 preserveAspectRatio, timerInterval, liveTimers, hpc, hrec,
                 hbuf, hreq, hist, uiIsRecording, mediaRecorder,
                 recordedChunks, recordingTime, saveStatus, rec, closure,
                 chunks, lastAct, mark>>

\* onClick of the aspect-ratio toggle:
\* !isRecording && setPreserveAspectRatio(!preserveAspectRatio)
TogglePreserveAspectRatio ==
  /\ ~uiIsRecording
  /\ preserveAspectRatio' = ~preserveAspectRatio
  /\ UNCHANGED <<now, saveVars, recVars, listed, bridgeVars>>
  /\ UNCHANGED <<sourcesLoaded, enumPending, resolutions, displays,
                 selectedSource, selectedFormat, selectedResolution,
                 selectedBitrate, timerInterval, liveTimers, hpc, hrec, hbuf,
                 hreq, hist, uiIsRecording, mediaRecorder, recordedChunks,
                 recordingTime, saveStatus, rec, closure, chunks, lastAct,
                 mark>>

\* setupStream continues after getUserMedia resolved: it creates the
\* recorder with its chunks array and handlers and stores it.
SetupDone(r) ==
  /\ rec[r] = "pending"
  /\ rec' = [rec EXCEPT ![r] = "inactive"]
  /\ mediaRecorder' = r
  /\ UNCHANGED <<now, saveVars, recVars, listed, bridgeVars>>
  /\ UNCHANGED <<sourcesLoaded, enumPending, resolutions, displays,
                 selectedSource, selectedFormat, selectedResolution,
                 selectedBitrate, preserveAspectRatio, timerInterval,
                 liveTimers, hpc, hrec, hbuf, hreq, hist, uiIsRecording,
                 recordedChunks, recordingTime, saveStatus, closure, chunks,
                 lastAct, mark>>

\* getUserMedia rejected or new MediaRecorder threw: the catch of
\* setupStream sets the status.
SetupFailed(r) ==
  /\ rec[r] = "pending"
  /\ rec' = [rec EXCEPT ![r] = "failed"]
  /\ saveStatus' = StatusSetupError
  /\ UNCHANGED <<now, saveVars, recVars, listed, bridgeVars>>
  /\ UNCHANGED <<sourcesLoaded, enumPending, resolutions, displays,
                 selectedSource, selectedFormat, selectedResolution,
                 selectedBitrate, preserveAspectRatio, timerInterval,
                 liveTimers, hpc, hrec, hbuf, hreq, hist, uiIsRecording,
                 mediaRecorder, recordedChunks, recordingTime, closure,
                 chunks, lastAct, mark>>

\* startRecording: without a recorder it does nothing; with one it resets
\* the chunk state, the time and the status, and start(200) either throws,
\* which ends the handler, or starts the recorder, after which the flag is
\* set and the 1-second interval created.
startRecording ==
  IF ~HasRecorder(mediaRecorder)
  THEN UNCHANGED <<recordedChunks, recordingTime, saveStatus, rec, mark,
                   uiIsRecording, timerInterval, liveTimers>>
  ELSE /\ recordedChunks' = <<>>
       /\ recordingTime' = 0
       /\ saveStatus' = StatusNone
       /\ IF StartThrows(mediaRecorder)
          THEN UNCHANGED <<rec, mark, uiIsRecording, timerInterval,
                           liveTimers>>
          ELSE /\ rec' = [rec EXCEPT ![mediaRecorder] = "recording"]
               /\ mark' = [mark EXCEPT
                             ![mediaRecorder] = Len(chunks[mediaRecorder])]
               /\ uiIsRecording' = TRUE
               /\ timerInterval' = TRUE
               /\ liveTimers' = liveTimers + 1

\* A click on Start Recording; a disabled button runs no handler. A
\* recorder's queued stop event is dispatched before the next click.
StartClick ==
  /\ HasRecorder(mediaRecorder) =>
       \A h \in Handlers : ~(hpc[h] = "queued" /\ hrec[h] = mediaRecorder)
  /\ lastAct' = "start"
  /\ IF StartDisabled(selectedSource, uiIsRecording)
     THEN UNCHANGED <<recordedChunks, recordingTime, saveStatus, rec, mark,
                      uiIsRecording, timerInterval, liveTimers>>
     ELSE startRecording
  /\ UNCHANGED <<now, saveVars, recVars, listed, bridgeVars>>
  /\ UNCHANGED <<sourcesLoaded, enumPending, resolutions, displays,
                 selectedSource, selectedFormat, selectedResolution,
                 selectedBitrate, preserveAspectRatio, hpc, hrec, hbuf, hreq,
                 hist, mediaRecorder, closure, chunks>>

\* stop() on a recording recorder makes it inactive and queues the task
\* that will fire its stop event.
QueueStop(r) ==
  /\ FreeHandlers # {}
  /\ LET h == CHOOSE x \in FreeHandlers : \A y \in FreeHandlers : x <= y
     IN  /\ hpc' = [hpc EXCEPT ![h] = "queued"]
         /\ hrec' = [hrec EXCEPT ![h] = r]
         /\ hist' = [hist EXCEPT ![h] = [mark |-> mark[r],
                                         selected |-> CurrentSettings]]
  /\ rec' = [rec EXCEPT ![r] = "inactive"]

\* stopRecording without the clearInterval.
stopRecordingKeepsTimer ==
  IF ~HasRecorder(mediaRecorder)
  THEN UNCHANGED <<rec, hpc, hrec, hist, uiIsRecording, timerInterval,
                   liveTimers>>
  ELSE /\ IF rec[mediaRecorder] = "recording"
          THEN QueueStop(mediaRecorder)
          ELSE UNCHANGED <<rec, hpc, hrec, hist>>
       /\ uiIsRecording' = FALSE
       /\ UNCHANGED <<timerInterval, liveTimers>>

\* stopRecording: with a recorder, stop() stops a recording recorder and
\* does nothing on an inactive one; then the flag is cleared and the
\* interval, if any, cancelled.
stopRecording ==
  IF ~HasRecorder(mediaRecorder)
  THEN UNCHANGED <<rec, hpc, hrec, hist, uiIsRecording, timerInterval,
                   liveTimers>>
  ELSE /\ IF rec[mediaRecorder] = "recording"
          THEN QueueStop(mediaRecorder)
          ELSE UNCHANGED <<rec, hpc, hrec, hist>>
       /\ uiIsRecording' = FALSE
       /\ IF timerInterval
          THEN /\ liveTimers' = liveTimers - 1
               /\ timerInterval' = FALSE
          ELSE UNCHANGED <<timerInterval, liveTimers>>

\* A click on Stop Recording; a disabled button runs no handler.
StopClick ==
  /\ lastAct' = "stop"
  /\ IF StopDisabled(uiIsRecording)
     THEN UNCHANGED <<rec, hpc, hrec, hist, uiIsRecording, timerInterval,
                      liveTimers>>
     ELSE stopRecording
  /\ UNCHANGED <<now, saveVars, recVars, listed, bridgeVars>>
  /\ UNCHANGED <<sourcesLoaded, enumPending, resolutions, displays,
                 selectedSource, selectedFormat, selectedResolution,
                 selectedBitrate, preserveAspectRatio, hbuf, hreq,
                 mediaRecorder, recordedChunks, recordingTime, saveStatus,
                 closure, chunks, mark>>

\* The captured stream ends on its own (its source goes away): a recorder
\* that is recording becomes inactive and the task that will fire its stop
\* event is queued. No handler of the component runs at this point.
StreamEnded(r) ==
  /\ rec[r] = "recording"
  /\ QueueStop(r)
  /\ UNCHANGED <<now, saveVars, recVars, listed, bridgeVars>>
  /\ UNCHANGED <<sourcesLoaded, enumPending, resolutions, displays,
                 selectedSource, selectedFormat, selectedResolution,
                 selectedBitrate, preserveAspectRatio, timerInterval,
                 liveTimers, hbuf, hreq, uiIsRecording, mediaRecorder,
                 recordedChunks, recordingTime, saveStatus, closure, chunks,
                 lastAct, mark>>

\* The 1-second interval fires: setRecordingTime(prev => prev + 1).
TimerTick ==
  /\ liveTimers > 0
  /\ recordingTime + 1 \in Times
  /\ recordingTime' = recordingTime + 1
  /\ UNCHANGED <<now, saveVars, recVars, listed, bridgeVars>>
  /\ UNCHANGED <<sourcesLoaded, enumPending, resolutions, displays,
                 selectedSource, selectedFormat, selectedResolution,
                 selectedBitrate, preserveAspectRatio, timerInterval,
                 liveTimers, hpc, hrec, hbuf, hreq, hist, uiIsRecording,
                 mediaRecorder, recordedChunks, saveStatus, rec, closure,
                 chunks, lastAct, mark>>

\* A recording recorder fires dataavailable with a blob of some size:
\* ondataavailable of its setupStream runs.
DataAvailable(r, size) ==
  /\ rec[r] = "recording"
  /\ Len(chunks[r]) + 1 \in ChunksPerRecorder
  /\ LET blob == Chunk(r, Len(chunks[r]) + 1, size)
     IN  /\ chunks' = [chunks EXCEPT ![r] = Push(@, blob)]
         /\ recordedChunks' = Push(recordedChunks, blob)
  /\ UNCHANGED <<now, saveVars, recVars, listed, bridgeVars>>
  /\ UNCHANGED <<sourcesLoaded, enumPending, resolutions, displays,
                 selectedSource, selectedFormat, selectedResolution,
                 selectedBitrate, preserveAspectRatio, timerInterval,
                 liveTimers, hpc, hrec, hbuf, hreq, hist, uiIsRecording,
                 mediaRecorder, recordingTime, saveStatus, rec, closure,
                 lastAct, mark>>

\* An onstop run ends having set the status last to `end`.
Finish(h, end) ==
  /\ saveStatus' = end
  /\ hpc' = [hpc EXCEPT ![h] = "done"]
  /\ hbuf' = [hbuf EXCEPT ![h] = <<>>]
  /\ hreq' = [hreq EXCEPT ![h] = NoRequest]
  /\ hist' = [hist EXCEPT ![h] = NoHist]
  /\ UNCHANGED hrec

\* A stopped recorder's queued task runs: it fires dataavailable with the
\* last blob and then stop, whose handler onstop runs up to its await of
\* the save dialog (blob.arrayBuffer() only copies the blob).
RecorderStopped(h, size) ==
  /\ hpc[h] = "queued"
  /\ size > 0 => Len(chunks[hrec[h]]) + 1 \in ChunksPerRecorder
  /\ LET r == hrec[h]
         blob == Chunk(r, Len(chunks[r]) + 1, size)
         list == Push(chunks[r], blob)
     IN  /\ chunks' = [chunks EXCEPT ![r] = list]
         /\ recordedChunks' = Push(recordedChunks, blob)
         /\ IF Len(list) = 0 THEN Finish(h, StatusNoData)
            ELSE IF BlobSize(list) = 0 THEN Finish(h, StatusEmpty)
            ELSE /\ saveStatus' = StatusProcessing
                 /\ hbuf' = [hbuf EXCEPT ![h] = list]
                 /\ hpc' = [hpc EXCEPT ![h] = "dialog"]
                 /\ UNCHANGED <<hrec, hreq, hist>>
  /\ UNCHANGED <<now, saveVars, recVars, listed, bridgeVars>>
  /\ UNCHANGED <<sourcesLoaded, enumPending, resolutions, displays,
                 selectedSource, selectedFormat, selectedResolution,
                 selectedBitrate, preserveAspectRatio, timerInterval,
                 liveTimers, uiIsRecording, mediaRecorder, recordingTime, rec,
                 closure, lastAct, mark>>

DialogDoneIgnoresCancel(h, reply) ==
  /\ hpc[h] = "dialog"
  /\ LET s == closure[hrec[h]]
         path == reply[2]
     IN  IF reply[1] = "rejected" THEN Finish(h, StatusThrown)
         ELSE IF TRUE
         THEN /\ saveStatus' = StatusSaving(ToUpperCase(s.format))
              /\ hreq' = [hreq EXCEPT ![h] = SaveArgs(path, hbuf[h], s)]
              /\ hpc' = [hpc EXCEPT ![h] = "save"]
              /\ UNCHANGED <<hrec, hbuf, hist>>
         ELSE Finish(h, StatusCancelled)
  /\ UNCHANGED <<now, saveVars, recVars, listed, bridgeVars>>
  /\ UNCHANGED <<sourcesLoaded, enumPending, resolutions, displays,
                 selectedSource, selectedFormat, selectedResolution,
                 selectedBitrate, preserveAspectRatio, timerInterval,
                 liveTimers, uiIsRecording, mediaRecorder, recordedChunks,
                 recordingTime, rec, closure, chunks, lastAct, mark>>

\* invoke('show-save-dialog') settles: with a file path onstop sends the
\* save-file request, without one it reports the cancel, and a rejection
\* lands in its catch.
DialogDone(h, reply) ==
  /\ hpc[h] = "dialog"
  /\ LET s == closure[hrec[h]]
         path == reply[2]
     IN  IF reply[1] = "rejected" THEN Finish(h, StatusThrown)
         ELSE IF path # EmptyPath
         THEN /\ saveStatus' = StatusSaving(ToUpperCase(s.format))
              /\ hreq' = [hreq EXCEPT ![h] = SaveArgs(path, hbuf[h], s)]
              /\ hpc' = [hpc EXCEPT ![h] = "save"]
              /\ UNCHANGED <<hrec, hbuf, hist>>
         ELSE Finish(h, StatusCancelled)
  /\ UNCHANGED <<now, saveVars, recVars, listed, bridgeVars>>
  /\ UNCHANGED <<sourcesLoaded, enumPending, resolutions, displays,
                 selectedSource, selectedFormat, selectedResolution,
                 selectedBitrate, preserveAspectRatio, timerInterval,
                 liveTimers, uiIsRecording, mediaRecorder, recordedChunks,
                 recordingTime, rec, closure, chunks, lastAct, mark>>

\* invoke('save-file') settles: onstop reports the result, and a
\* rejection lands in its catch.
SaveDone(h, reply) ==
  /\ hpc[h] = "save"
  /\ Finish(h, IF reply[1] = "rejected" THEN StatusThrown
               ELSE IF reply[2].success
               THEN StatusSaved(hreq[h].filePath)
               ELSE StatusSaveError(reply[2].error))
  /\ UNCHANGED <<now, saveVars, recVars, listed, bridgeVars>>
  /\ UNCHANGED <<sourcesLoaded, enumPending, resolutions, displays,
                 selectedSource, selectedFormat, selectedResolution,
                 selectedBitrate, preserveAspectRatio, timerInterval,
                 liveTimers, uiIsRecording, mediaRecorder, recordedChunks,
                 recordingTime, rec, closure, chunks, lastAct, mark>>

\* Recording sessions with the settings left as they are, while the
\* resolution enumeration is still under way.
UiNext ==
  \/ SourcesLoaded
  \/ \E source \in {"screen", "window"} : handleSourceSelect(source)
  \/ \E r \in Recorders : SetupDone(r)
  \/ \E r \in Recorders : SetupFailed(r)
  \/ StartClick
  \/ StopClick
  \/ TimerTick
  \/ \E r \in Recorders, size \in ChunkSizes : DataAvailable(r, size)
  \/ \E h \in Handlers, size \in ChunkSizes : RecorderStopped(h, size)
  \/ \E h \in Handlers, reply \in DialogReplies : DialogDone(h, reply)
  \/ \E h \in Handlers, reply \in SaveReplies : SaveDone(h, reply)

\* A Start click of a user who waits for a recording to be saved before
\* starting the next one: no onstop run is queued or under way.
PatientStartClick ==
  /\ \A h \in Handlers : hpc[h] \in {"idle", "done"}
  /\ StartClick

\* Sessions of such a user, who also changes the settings; the resolution
\* chosen is the second entry of the list.
UiPickNext ==
  \/ SourcesLoaded
  \/ \E nativeRes \in NativeLists : ResolutionsLoaded(nativeRes)
  \/ handleSourceSelect("screen")
  \/ SelectResolution(2)
  \/ SelectBitrate(2500000)
  \/ SelectFormat("webm")
  \/ TogglePreserveAspectRatio
  \/ \E r \in Recorders : SetupDone(r)
  \/ PatientStartClick
  \/ StopClick
  \/ \E h \in Handlers : RecorderStopped(h, 1)
  \/ \E h \in Handlers, p \in DestPaths : DialogDone(h, <<"resolved", p>>)
  \/ \E h \in Handlers : SaveDone(h, <<"resolved", Ok>>)

\* Sessions of that user with one source and the settings left alone, in
\* which the captured stream may end while it is being recorded.
UiEndNext ==
  \/ SourcesLoaded
  \/ handleSourceSelect("screen")
  \/ \E r \in Recorders : SetupDone(r)
  \/ PatientStartClick
  \/ StopClick
  \/ TimerTick
  \/ \E r \in Recorders : StreamEnded(r)
  \/ \E r \in Recorders, size \in ChunkSizes : DataAvailable(r, size)
  \/ \E h \in Handlers, size \in ChunkSizes : RecorderStopped(h, size)
  \/ \E h \in Handlers, reply \in DialogReplies : DialogDone(h, reply)
  \/ \E h \in Handlers, reply \in SaveReplies : SaveDone(h, reply)

UiSpec == Init /\ [][UiNext]_vars
UiEndSpec == Init /\ [][UiEndNext]_vars
UiPickSpec == Init /\ [][UiPickNext]_vars

\* UiSpec with the scheduling the platform gives: a queued stop task is
\* run, the save dialog is answered and the save-file request settles.
UiFairSpec ==
  /\ UiSpec
  /\ \A h \in Handlers :
       /\ WF_vars(\E size \in ChunkSizes : RecorderStopped(h, size))
       /\ WF_vars(\E reply \in DialogReplies : DialogDone(h, reply))
       /\ WF_vars(\E reply \in SaveReplies : SaveDone(h, reply))

\* ------------------------------------------- save-file: overlapping calls
\* ipcMain.handle starts a run of the handler for every request, whether
\* or not an earlier run has returned. Each call is followed to its
\* return.
OverlapRequest ==
  \E c \in SaveCalls, filePath \in DestPaths,
     buffer \in {Buf(<<1>>), Buf(<<2, 1>>)}, format \in {"webm", "mp4"} :
       SaveFile(c, filePath, buffer, format, Undefined, Undefined, FALSE)

SaveOverlapNext ==
  \/ Tick
  \/ OverlapRequest
  \/ \E c \in SaveCalls : WriteDone(c)
  \/ \E c \in SaveCalls : StatDone(c)
  \/ \E c \in SaveCalls : CopyDone(c)
  \/ \E c \in SaveCalls, kind \in {"err", "novideo", "badmeta", "ok"} :
       ProbeDone(c, Probe(kind, 1920, 1080))
  \/ \E c \in SaveCalls : FfmpegDone(c)
  \/ \E c \in SaveCalls : UnlinkDone(c)

SaveOverlapSpec == Init /\ [][SaveOverlapNext]_vars

\* ------------------------------------------ save-file: transcode requests
\* A request for a transcoded save of a recording, with any resolution
\* string, a bitrate (undefined or a number of bits per second) and a
\* preserve flag, made when no other is in flight.
TranscodeRequest ==
  \E resolution \in ResolutionStrings,
     bitrate \in {Undefined, Num(0), Num(999), Num(2500000), Num(5000999)},
     preserve \in BOOLEAN :
       NoSaveInFlight
       /\ SaveFile(1, <<"dest", 1>>, Buf(<<1>>), "mp4", resolution, bitrate,
                   preserve)

TranscodeNext ==
  \/ TranscodeRequest
  \/ \E c \in SaveCalls : WriteDone(c)
  \/ \E c \in SaveCalls : StatDone(c)
  \/ \E c \in SaveCalls,
        probe \in {Probe("err", 0, 0), Probe("novideo", 0, 0),
                   Probe("badmeta", 0, 0), Probe("ok", 1280, 720),
                   Probe("ok", 1920, 1080), Probe("ok", 0, 0)} :
       ProbeDone(c, probe)
  \/ \E c \in SaveCalls : FfmpegDone(c)
  \/ \E c \in SaveCalls : UnlinkDone(c)
  \/ \E c \in SaveCalls : SaveAck(c)

TranscodeSpec == Init /\ [][TranscodeNext]_vars

\* --------------------------------- main process: size normalization
\* The two places where the main process normalizes a size: the display
\* listing the renderer merges into its resolution list, and a transcode
\* request with any resolution string.
NormRequest ==
  \E resolution \in ResolutionStrings :
    NoSaveInFlight
    /\ SaveFile(1, <<"dest", 1>>, Buf(<<1>>), "mp4", resolution,
                Num(2500000), TRUE)

NormNext ==
  \/ \E d \in DisplayLists : DisplaysChanged(d)
  \/ \E nativeResolutions \in NativeLists :
       ResolutionsLoaded(nativeResolutions)
  \/ NormRequest
  \/ \E c \in SaveCalls : WriteDone(c)
  \/ \E c \in SaveCalls : StatDone(c)
  \/ \E c \in SaveCalls : ProbeDone(c, Probe("ok", 1280, 720))
  \/ \E c \in SaveCalls : FfmpegDone(c)
  \/ \E c \in SaveCalls : UnlinkDone(c)
  \/ \E c \in SaveCalls : SaveAck(c)

NormSpec == Init /\ [][NormNext]_vars

\* ------------------------------------------- display listing: the labels
\* One display of any of these widths and heights.
AspectDisplays ==
  {<<[width |-> w, height |-> h]>> :
     w \in {1280, 1366, 1700, 1707, 1920, 2560, 3000, 3440},
     h \in {720, 768, 1000, 1024, 1067, 1080, 1440, 1600, 1920}}

\* The renderer asks for the listing of whatever display is attached.
AspectNext ==
  \/ \E d \in AspectDisplays : DisplaysChanged(d)
  \/ \E nativeResolutions \in NativeLists :
       ResolutionsLoaded(nativeResolutions)

AspectSpec == Init /\ [][AspectNext]_vars

\* ------------------------- renderer and overlapping saves: the claims
\* C11: a click on Start Recording while there is no recorder or while a
\* recording is in progress changes nothing: the chunk sequence, the
\* elapsed time, the status, the tick timer and the recording flag stay
\* as they are and no recorder is started.
C11_RejectedStartIsNoOp ==
  [][(StartClick /\ (mediaRecorder = NoRecorder \/ uiIsRecording))
       => UNCHANGED <<recordedChunks, recordingTime, saveStatus,
                      timerInterval, liveTimers, uiIsRecording, rec>>]_vars

\* Start was clicked with a source selected but no recorder, after a
\* failed setup had set a status for the click to leave alone.
C11_Witness ==
  /\ lastAct = "start"
  /\ selectedSource # NoSource
  /\ mediaRecorder = NoRecorder
  /\ saveStatus = StatusSetupError

\* C12: the buffer an onstop run assembles, and hands to the save dialog
\* and to save-file, consists of exactly the chunks its recorder delivered
\* since the start of the recording that was stopped, in delivery order.
C12_BufferIsThisRecording ==
  \A h \in Handlers :
    hpc[h] \in {"dialog", "save"}
      => hbuf[h] = Delivered(hbuf[h], hist[h].mark)

\* C13: when the stop event of a recording during which no chunk was
\* captured is handled, onstop sets the 'no data collected' status and
\* ends without invoking the save dialog or save-file.
C13_NoChunksNoSave ==
  [][\A h \in Handlers :
       (/\ hpc[h] = "queued" /\ hpc'[h] # "queued"
        /\ Delivered(chunks'[hrec[h]], hist[h].mark) = <<>>)
         => saveStatus' = StatusNoData /\ hpc'[h] = "done"]_vars

\* C14: at most one save-file request of the renderer is in flight.
C14_OneSaveInFlight ==
  Cardinality({h \in Handlers : hpc[h] = "save"}) <= 1

\* C15: a save-file request carries the format, the resolution string,
\* the bitrate and the preserve-aspect value that were selected in the UI
\* at the moment its recording was stopped.
C15_RequestCarriesSelection ==
  \A h \in Handlers :
    hpc[h] = "save"
      => hreq[h] = SaveArgs(hreq[h].filePath, hreq[h].buffer,
                            hist[h].selected)

\* C16: a Stop click during a recording clears isRecording, stops the tick
\* and leaves a recording startable; no step of the finalize handler,
\* whatever the dialog or the save answers, changes isRecording or the
\* tick or takes away the ability to start a new recording.
C16_StopLeavesRecording ==
  [][/\ (StopClick /\ uiIsRecording)
          => /\ ~uiIsRecording'
             /\ ~timerInterval' /\ liveTimers' = 0
             /\ CanStartRecording'
     /\ \A h \in Handlers :
          (hpc[h] \in {"queued", "dialog", "save"} /\ hpc'[h] # hpc[h])
            => /\ UNCHANGED <<uiIsRecording, timerInterval, liveTimers>>
               /\ CanStartRecording => CanStartRecording']_vars

\* The save of a stopped recording has failed, and a new recording can be
\* started.
C16_Witness ==
  \E h \in Handlers :
    /\ hpc[h] = "done" /\ hrec[h] = mediaRecorder
    /\ saveStatus = StatusSaveError("ffmpeg exited with code 1")
    /\ lastAct = "stop" /\ ~uiIsRecording /\ liveTimers = 0
    /\ CanStartRecording

\* C17: once the session has left Recording every recorder that was
\* capturing gets its stop event, every queued finalize handler runs to
\* its end, and it ends with the status 'no data', 'empty', 'Save
\* cancelled', a success or a save error.
C17_StopLeadsToOutcome ==
  /\ \A r \in Recorders :
       (rec[r] = "recording" /\ ~uiIsRecording) ~> (rec[r] # "recording")
  /\ \A h \in Handlers : (hpc[h] = "queued") ~> (hpc[h] = "done")
  /\ [][\A h \in Handlers :
          (hpc[h] # "done" /\ hpc'[h] = "done")
            => saveStatus' \in
                 {StatusNoData, StatusEmpty, StatusCancelled, StatusThrown}
                 \cup {StatusSaved(p) : p \in DestPaths}
                 \cup {StatusSaveError(e) : e \in {"ffmpeg exited with code 1"}}]_vars

\* C18: when a setupStream call fails, the status 'Error setting up
\* stream' is set and afterwards no recorder is held, so that a Start
\* click does not start a recording.
C18_SetupFailureLeavesIdle ==
  [][(\E r \in Recorders : rec[r] = "pending" /\ rec'[r] = "failed")
       => /\ saveStatus' = StatusSetupError
          /\ mediaRecorder' = NoRecorder
          /\ ~CanStartRecording']_vars

\* C19: no step taken while the session is and stays Recording changes the
\* selected source, format, resolution, bitrate or preserve-aspect
\* setting.
C19_SettingsFrozenWhileRecording ==
  [][(uiIsRecording /\ uiIsRecording') => UNCHANGED <<selectedSource,
                                                      selectedFormat,
                                                      selectedResolution,
                                                      selectedBitrate,
                                                      preserveAspectRatio>>]_vars

\* C20: two save-file calls that are both between their invocation and
\* their return hold different temp paths, and no step of one call
\* changes the file at the other's temp path.
C20_TempPathsDistinct ==
  /\ [](\A c, d \in SaveCalls :
          (/\ c # d
           /\ spc[c] \notin {"idle", "ret"} /\ tempPath[c] # NoPath
           /\ spc[d] \notin {"idle", "ret"} /\ tempPath[d] # NoPath)
            => tempPath[c] # tempPath[d])
  /\ [][\A c, d \in SaveCalls :
          (/\ c # d /\ spc'[c] # spc[c]
           /\ spc[d] \notin {"idle", "ret"} /\ tempPath[d] # NoPath)
            => fs'[tempPath[d]] = fs[tempPath[d]]]_vars

\* ----------------------------------- transcode arguments: the claims
\* C21: when the probe errors, finds no video stream or hands over
\* metadata that cannot be parsed, getVideoInfo has resolved with 1920x1080
\* and the call has gone on to run the transcoder once.
C21_ProbeFailureNotFatal ==
  \A c \in SaveCalls :
    outcome[c].probe \in {"err", "novideo", "badmeta"}
      => /\ inputInfo[c] = [width |-> 1920, height |-> 1080]
         /\ ffmpegRuns[c] = 1
         /\ command[c] # NoCommand
         /\ spc[c] = "ffmpeg" \/ outcome[c].ffmpeg # "none"

\* A call whose probe reported an error has transcoded and returned
\* success.
C21_Witness ==
  \E c \in SaveCalls :
    /\ SaveReturned(c) /\ outcome[c].probe = "err"
    /\ outcome[c].ffmpeg = "end" /\ returned[c] = Ok

\* C22: a call whose resolution string is absent, does not have exactly
\* two 'x'-separated parts, or has a part in which no number can be read,
\* configures the transcoder with the scale filter of 1920x1080.
C22_MalformedResolutionDefaults ==
  \A c \in SaveCalls :
    LET resolution == sargs[c].resolution
        dims == Split(resolution[2], "x")
        malformed ==
          \/ resolution[1] # "string"
          \/ Len(dims) # 2
          \/ \E i \in 1..Len(dims) : ParseInt(dims[i]) = NaN
    IN  (command[c] # NoCommand /\ malformed)
          => command[c].videoFilters
               = ScaleFilter(Num(1920), Num(1080), sargs[c].preserveAspectRatio)

\* C23: a height h > 0 is kept when even and becomes h - 1 when odd, the
\* width staying as it is, both in the display listing the renderer has
\* merged into its resolution list and in the scale filter configured for
\* a request whose resolution string is 'WxH' with W, H > 0; the result is
\* even and at most h.
C23_EvenHeight ==
  /\ (~enumPending /\ resolutions # DEFAULT_RESOLUTIONS)
       => \A i \in 1..Len(displays) :
            LET h == displays[i].height
                even == IF h % 2 = 0 THEN h ELSE h - 1
            IN  /\ even % 2 = 0 /\ even <= h
                /\ \E j \in 1..Len(resolutions) :
                     resolutions[j] = Res(displays[i].width, even, TRUE)
  /\ \A c \in SaveCalls :
       LET dims == Split(sargs[c].resolution[2], "x")
           w == ParseInt(dims[1])
           h == ParseInt(dims[2])
           even == IF h[2] % 2 = 0 THEN h[2] ELSE h[2] - 1
       IN  (/\ command[c] # NoCommand
            /\ sargs[c].resolution[1] = "string" /\ Len(dims) = 2
            /\ w[1] = "number" /\ w[2] > 0 /\ h[1] = "number" /\ h[2] > 0)
             => /\ even % 2 = 0 /\ even <= h[2]
                /\ command[c].videoFilters
                     = ScaleFilter(w, Num(even), sargs[c].preserveAspectRatio)

\* A display 1707x1067 has been listed as 1707x1066, and a request for
\* '1920x1081' has configured the transcoder for 1920x1080.
C23_Witness ==
  /\ ~enumPending
  /\ \E i \in 1..Len(displays) : displays[i].height = 1067
  /\ \E j \in 1..Len(resolutions) : resolutions[j] = Res(1707, 1066, TRUE)
  /\ \E c \in SaveCalls :
       /\ sargs[c].resolution
            = Str(<<"1", "9", "2", "0", "x", "1", "0", "8", "1">>)
       /\ command[c].videoFilters = ScaleFilter(Num(1920), Num(1080), TRUE)

\* C24: every entry of the renderer's resolution list has width > 0 and
\* height > 0, and a request whose resolution string is 'WxH' with
\* W, H > 0 configures the transcoder for a target width > 0 and
\* height > 0.
C24_SizesStayPositive ==
  /\ \A j \in 1..Len(resolutions) :
       resolutions[j].width > 0 /\ resolutions[j].height > 0
  /\ \A c \in SaveCalls :
       LET dims == Split(sargs[c].resolution[2], "x")
           w == ParseInt(dims[1])
           h == ParseInt(dims[2])
           target == ParseResolution(sargs[c].resolution)
       IN  (/\ command[c] # NoCommand
            /\ sargs[c].resolution[1] = "string" /\ Len(dims) = 2
            /\ w[1] = "number" /\ w[2] > 0 /\ h[1] = "number" /\ h[2] > 0)
             => /\ command[c].videoFilters
                     = ScaleFilter(target.width, target.height,
                                   sargs[c].preserveAspectRatio)
                /\ target.width[1] = "number" /\ target.width[2] > 0
                /\ target.height[1] = "number" /\ target.height[2] > 0

\* C25 as stated: the transcoder's video bitrate is floor(bitrate / 1000)
\* when a bitrate is given, whatever its value, and 5000 when none is
\* given.
C25_BitrateInKbps ==
  \A c \in SaveCalls :
    command[c] # NoCommand
      => command[c].videoBitrate
           = IF sargs[c].bitrate[1] = "number"
             THEN Num(sargs[c].bitrate[2] \div 1000) ELSE Num(5000)

\* C25 amended: the transcoder's video bitrate is floor(bitrate / 1000)
\* when a bitrate other than 0 is given, and 5000 when the bitrate is
\* absent or 0.
C25_BitrateInKbpsUnlessZero ==
  \A c \in SaveCalls :
    command[c] # NoCommand
      => command[c].videoBitrate
           = IF sargs[c].bitrate[1] = "number" /\ sargs[c].bitrate[2] # 0
             THEN Num(sargs[c].bitrate[2] \div 1000) ELSE Num(5000)

\* A request with bitrate 2500000 has configured the transcoder with
\* 2500 kbps.
C25_Witness ==
  \E c \in SaveCalls :
    /\ sargs[c].bitrate = Num(2500000)
    /\ command[c].videoBitrate = Num(2500)

\* C26: the scale filter of a configured transcoder command is, for the
\* normalized target W, H: 'scale=W:H' when the preserve flag is false, and
\* 'scale=W:H:force_original_aspect_ratio=decrease,pad=W:H:(ow-iw)/2:(oh-ih)/2'
\* when it is true, whatever the probe reported.
C26_ScaleFilterFromTarget ==
  \A c \in SaveCalls :
    LET target == ParseResolution(sargs[c].resolution)
        W == NumberToString(target.width)
        H == NumberToString(target.height)
    IN  command[c] # NoCommand
          => command[c].videoFilters
               = IF sargs[c].preserveAspectRatio
                 THEN <<"scale=">> \o W \o <<":">> \o H
                        \o <<":force_original_aspect_ratio=decrease,pad=">>
                        \o W \o <<":">> \o H \o <<":(ow-iw)/2:(oh-ih)/2">>
                 ELSE <<"scale=">> \o W \o <<":">> \o H

\* An input probed as 1280x720 with target '1920x1080' and the preserve
\* flag false has the filter 'scale=1920:1080'.
C26_Witness ==
  \E c \in SaveCalls :
    /\ inputInfo[c] = [width |-> 1280, height |-> 720]
    /\ sargs[c].resolution
         = Str(<<"1", "9", "2", "0", "x", "1", "0", "8", "0">>)
    /\ ~sargs[c].preserveAspectRatio
    /\ command[c].videoFilters
         = <<"scale=", "1", "9", "2", "0", ":", "1", "0", "8", "0">>

\* C27: when the save dialog resolves without a file path, the finalize
\* handler ends with the status 'Save cancelled' and sends no save-file
\* request; a handler that sends one sends it with the non-empty path the
\* dialog resolved with.
C27_CancelSendsNothing ==
  [][\A h \in Handlers, reply \in DialogReplies :
       DialogDone(h, reply)
         => /\ (reply = <<"resolved", EmptyPath>>)
                 => /\ hpc'[h] = "done" /\ hreq'[h] = NoRequest
                    /\ saveStatus' = StatusCancelled
            /\ (hpc'[h] = "save")
                 => /\ reply[1] = "resolved" /\ reply[2] \in DestPaths
                    /\ hreq'[h].filePath = reply[2]]_vars

\* A finalize handler has ended on a cancelled dialog.
C27_Witness ==
  \E h \in Handlers :
    /\ hpc[h] = "done" /\ hreq[h] = NoRequest
    /\ saveStatus = StatusCancelled

\* ------------------------------------------ recorder: further claims
\* C28: each exit of a recorder process sends exactly one
\* recording-stopped event, whose success is true iff the exit code is 0
\* and whose path is the recording path the process was started with.
C28_OneEventPerExit ==
  [][\A p \in Procs, code \in ExitCodes :
       ProcClose(p, code)
         => /\ evCount' = evCount + 1
            /\ lastEvent' = [path |-> procPath[p], success |-> code = 0]]_vars

\* C29: when a start-recording call ends without a recorder process having
\* started to run (mkdir or the metadata write was rejected, or the process
\* could not be spawned), the call returns
\* {success:false, "Failed to start recording"} and isRecording is false
\* afterwards, so that the guard of a start-recording invoked next does not
\* answer "Already recording".
C29_FailedStartLeavesIdle ==
  [][\A h \in StartCalls :
       /\ StartDirsDone(h) \/ StartMetaDone(h)
       /\ rpc'[h] = "ret"
       /\ \A p \in Procs : proc'[p] = "running" => proc[p] = "running"
       => /\ rret'[h] = StartFailed
          /\ ~isRecording'
          /\ ~StartRejected(isRecording')]_vars


\* ----------------------------------------- renderer: the resolution list
\* C30: once getScreenResolutions has continued with the main process's
\* listing, the resolution list holds the size of every listed display and
\* of every entry of DEFAULT_RESOLUTIONS, no two of its entries have the
\* same width and height, and the heights do not increase along the list.
C30_ResolutionListComplete ==
  [][\A nativeResolutions \in NativeLists :
       ResolutionsLoaded(nativeResolutions)
       => /\ \A k \in 1..Len(nativeResolutions) :
               \E j \in 1..Len(resolutions') :
                 SameSize(resolutions'[j], nativeResolutions[k])
          /\ \A k \in 1..Len(DEFAULT_RESOLUTIONS) :
               \E j \in 1..Len(resolutions') :
                 SameSize(resolutions'[j], DEFAULT_RESOLUTIONS[k])
          /\ \A i, j \in 1..Len(resolutions') :
               i < j => /\ ~SameSize(resolutions'[i], resolutions'[j])
                        /\ resolutions'[i].height >= resolutions'[j].height]_vars

\* Displays 1707x1067 and 1920x1080 have been listed: the list holds the
\* five standard sizes and 1707x1066, the 1920x1080 entry being the
\* display's.
C30_Witness ==
  /\ ~enumPending
  /\ displays = <<[width |-> 1707, height |-> 1067],
                  [width |-> 1920, height |-> 1080]>>
  /\ Len(resolutions) = 6
  /\ resolutions[3] = Res(1920, 1080, TRUE)
  /\ resolutions[4] = Res(1707, 1066, TRUE)


\* ------------------------------------------------ preload: the steps
\* validChannels.includes(channel)
ValidChannelAny(channel) == TRUE
ValidChannel(channel) == channel \in validChannels

\* electron.ipcRenderer.invoke(channel, data) is called: a valid channel
\* is handed to ipcRenderer.invoke, any other gets a rejected promise.
BridgeInvoke(channel, data) ==
  /\ Len(ipcSent) < MaxSent
  /\ IF ValidChannel(channel)
       THEN /\ ipcSent' = Append(ipcSent, [channel |-> channel, data |-> data])
            /\ bridgeReply' = [channel |-> channel, settled |-> "forwarded",
                               error |-> <<>>]
       ELSE /\ UNCHANGED ipcSent
            /\ bridgeReply' = [channel |-> channel, settled |-> "rejected",
                               error |-> <<"Invalid channel: ", channel>>]
  /\ UNCHANGED <<now, saveVars, recVars, uiVars>>

\* The page invokes any channel with or without data.
BridgeNext ==
  \E channel \in {"show-save-dialog", "save-file", "Save-File", "",
                  "start-recording", "stop-recording", "upload-recording",
                  "GET_SCREEN_RESOLUTIONS", "DESKTOP_CAPTURER_GET_SOURCES"},
     data \in {Undefined, Num(0), Str(<<"a">>)} :
       BridgeInvoke(channel, data)

BridgeSpec == Init /\ [][BridgeNext]_vars

\* ------------------------------------------- display listing: the claims
\* C31: the aspect-ratio label listed for a display w x h is '16:9',
\* '4:3', '3:2' or '21:9' when w/h lies strictly inside (1.7, 1.8),
\* (1.3, 1.4), (1.5, 1.6) or (2.3, 2.4); otherwise it is (w/g):(h/g) for
\* the greatest common divisor g, or '16:9' when w/g or h/g exceeds 100.
\* 1920x1080 is listed as '16:9' and 1280x1024 as '5:4'.
C31_AspectRatioLabel ==
  \A i \in 1..Len(listed) :
    LET w == displays[i].width
        h == displays[i].height
        Between(lo, hi) == lo * h < 10 * w /\ 10 * w < hi * h
        g == CHOOSE k \in 1..w :
               /\ w % k = 0 /\ h % k = 0
               /\ \A m \in (k + 1)..w : ~(w % m = 0 /\ h % m = 0)
        label == listed[i].aspectRatio
    IN  /\ Between(17, 18) => label = <<"1", "6", ":", "9">>
        /\ Between(13, 14) => label = <<"4", ":", "3">>
        /\ Between(15, 16) => label = <<"3", ":", "2">>
        /\ Between(23, 24) => label = <<"2", "1", ":", "9">>
        /\ ~(Between(17, 18) \/ Between(13, 14) \/ Between(15, 16)
               \/ Between(23, 24))
             => label = IF w \div g > 100 \/ h \div g > 100
                          THEN <<"1", "6", ":", "9">>
                          ELSE NumberToString(Num(w \div g)) \o <<":">>
                                 \o NumberToString(Num(h \div g))
        /\ w = 1920 /\ h = 1080 => label = <<"1", "6", ":", "9">>
        /\ w = 1280 /\ h = 1024 => label = <<"5", ":", "4">>

\* A 1280x1024 display has been listed with the label '5:4'.
C31_Witness ==
  /\ ~enumPending
  /\ displays = <<[width |-> 1280, height |-> 1024]>>
  /\ Len(listed) = 1
  /\ listed[1].aspectRatio = <<"5", ":", "4">>


\* ---------------------------------------------- recorder: the invariants
\* C32: isRecording is true exactly when the process ffmpegProcess refers
\* to has been spawned and has not closed, and every recorder process that
\* is running is the one ffmpegProcess refers to.
C32_FlagTracksProcess ==
  /\ isRecording <=> ffmpegProcess \in Running
  /\ \A p \in Running : p = ffmpegProcess


\* ---------------------------------------- save-file: the order of steps
\* C33: within a save-file call, ffprobe and the transcoder are started
\* only once the temp file has been written and fs.stat has found it
\* non-empty, the transcoder only once the probe has answered; and the call
\* deletes its temp file only once fs.copyFile has settled or the
\* transcoder has emitted 'end' or 'error', when it got as far as starting
\* one of them.
C33_StepsOrdered ==
  [][\A c \in SaveCalls :
       LET written == /\ outcome'[c].write = "ok"
                      /\ outcome'[c].stat = "ok"
                      /\ fs[tempPath[c]] = Raw(sargs[c].buffer.bytes)
                      /\ Len(fs[tempPath[c]].bytes) > 0
       IN  /\ probeRuns'[c] > probeRuns[c] => written
           /\ ffmpegRuns'[c] > ffmpegRuns[c]
                => written /\ outcome'[c].probe # "none"
           /\ (UnlinkDone(c) /\ ~fs'[tempPath[c]].exists)
                => (TempVerified(c)
                      => \/ outcome[c].copy # "none"
                         \/ outcome[c].ffmpeg # "none")]_vars

\* A call has transcoded its temp file, the transcoder has ended, and the
\* temp file has been deleted after that.
C33_Witness ==
  \E c \in SaveCalls :
    /\ SaveReturned(c)
    /\ outcome[c].write = "ok" /\ outcome[c].stat = "ok"
    /\ outcome[c].probe = "ok" /\ outcome[c].ffmpeg = "end"
    /\ outcome[c].unlink = "ok"
    /\ ~TempExists(c)


\* --------------------------------------- renderer: the recording flag
\* C34: isRecording is true exactly when a recorder is in its recording
\* state, and whenever recorder.onstop runs, whatever stopped the recorder,
\* isRecording is false and the 1-second interval has been cleared.
C34_FlagFollowsRecorder ==
  [][/\ uiIsRecording <=> \E r \in Recorders : rec[r] = "recording"
     /\ \A h \in Handlers, size \in ChunkSizes :
          RecorderStopped(h, size)
            => ~uiIsRecording /\ ~timerInterval /\ liveTimers = 0]_vars


\* ------------------------------------------------- renderer: the timer
\* C35: at most one 1-second interval exists, and one exists exactly when
\* isRecording is true; recordingTime is 0 when a recording starts and
\* otherwise changes only by +1, at a tick of the interval while
\* isRecording is true.
C35_OneTimerWhileRecording ==
  [][/\ liveTimers <= 1
     /\ liveTimers = 1 <=> uiIsRecording
     /\ timerInterval <=> liveTimers = 1
     /\ (~uiIsRecording /\ uiIsRecording') => recordingTime' = 0
     /\ recordingTime' # recordingTime
          => \/ recordingTime' = 0 /\ lastAct' = "start"
             \/ /\ recordingTime' = recordingTime + 1
                /\ uiIsRecording /\ uiIsRecording'
                /\ liveTimers = 1]_vars

\* A recording has been started and its timer has ticked once.
C35_Witness ==
  /\ uiIsRecording
  /\ liveTimers = 1
  /\ recordingTime = 1


\* ------------------------------------------------ renderer: the chunks
\* C36: every blob kept in a recorder's `chunks` and in recordedChunks has
\* size > 0; the blob an onstop run assembles from a non-empty chunk list
\* has size > 0, and no onstop run ends with 'Error: Recording is empty'.
C36_ChunksNonEmpty ==
  /\ \A r \in Recorders : \A k \in 1..Len(chunks[r]) : chunks[r][k].size > 0
  /\ \A k \in 1..Len(recordedChunks) : recordedChunks[k].size > 0
  /\ \A r \in Recorders : Len(chunks[r]) > 0 => BlobSize(chunks[r]) > 0
  /\ \A h \in Handlers : Len(hbuf[h]) > 0 => BlobSize(hbuf[h]) > 0
  /\ saveStatus # StatusEmpty

\* An onstop run has assembled a blob from two kept chunks and waits for
\* the save dialog.
C36_Witness ==
  \E h \in Handlers :
    /\ hpc[h] = "dialog"
    /\ Len(hbuf[h]) = 2
    /\ BlobSize(hbuf[h]) = 2


\* ------------------------------------------- recorder: stop-recording
\* C37: a stop-recording call that found a recording in progress returns
\* only once the recorder process it signalled has closed, and at the
\* moment it returns isRecording is false, so that the guard of a
\* start-recording invoked next lets it through.
C37_StopReturnsIdle ==
  [][\A h \in StopCalls :
       (stpc[h] \in {"wait", "read", "write"} /\ stpc'[h] = "ret")
         => /\ proc'[stproc[h]] = "closed"
            /\ ~isRecording'
            /\ ~StartRejected(isRecording')]_vars


\* ------------------------------------------------- preload: the claims
\* C38: electron.ipcRenderer.invoke hands a call to the main process only
\* when its channel is 'show-save-dialog' or 'save-file'; on any other
\* channel it returns a promise rejected with 'Invalid channel: <channel>'
\* and sends nothing.
C38_OnlyValidChannelsForwarded ==
  [][bridgeVars' # bridgeVars =>
       /\ \A k \in 1..Len(ipcSent') :
            ipcSent'[k].channel \in {"show-save-dialog", "save-file"}
       /\ bridgeReply'.channel \in {"show-save-dialog", "save-file"}
            => /\ bridgeReply'.settled = "forwarded"
               /\ ipcSent' = Append(ipcSent, ipcSent'[Len(ipcSent')])
               /\ ipcSent'[Len(ipcSent')].channel = bridgeReply'.channel
       /\ bridgeReply'.channel \notin {"show-save-dialog", "save-file"}
            => /\ bridgeReply'.settled = "rejected"
               /\ bridgeReply'.error
                    = <<"Invalid channel: ", bridgeReply'.channel>>
               /\ ipcSent' = ipcSent]_vars

\* A 'save-file' invoke has been forwarded, and after it an invoke on
\* 'start-recording' has been rejected without a message being sent.
C38_Witness ==
  /\ Len(ipcSent) = 1
  /\ ipcSent[1].channel = "save-file"
  /\ bridgeReply.channel = "start-recording"
  /\ bridgeReply.settled = "rejected"

====
